---- MODULE Spec2Model ----
(***************************************************************************)
(* Multi-source entity enrichment (backend/multi_source_service.py,        *)
(* backend/wikipedia_service.py, backend/nlp_service.py) and the entity    *)
(* cache (backend/database.py) as a state machine.                         *)
(*                                                                         *)
(* Python str values are sequences of one-character strings, so lower(),   *)
(* slicing, concatenation and the `in` substring test are computed.        *)
(* Opaque strings that the code only stores and tests for emptiness (urls, *)
(* ids) are one-element sequences.  Fixed labels (confidence tiers, source *)
(* names, entity types) are TLA+ strings.  The rate limiter's clock counts  *)
(* milliseconds; retrieved_at is not part of this development.             *)
(***************************************************************************)
EXTENDS Integers, Sequences, FiniteSets, TLC

VARIABLES
    kg_api_key,      \* MultiSourceService.kg_api_key is configured
    pc,              \* position of the calling thread
    call,            \* arguments of the call in progress
    tasks,           \* parallel mode: sources submitted to the executor
    results,         \* <<source, result>> of each provider call, in completion order
    combined_data,   \* the aggregator's record under construction
    requested,       \* providers an HTTP request was sent to, this call
    wire_log,        \* sequential mode: _rate_limit calls and HTTP requests, in order
    enriched_data,   \* WikipediaService.enrich_entity's record
    entity_cache,    \* rows of the entity_cache table
    cache_log,       \* entity-cache operations of this call, in order
    ret,             \* what the call returned to its caller
    now,             \* time.time(), in milliseconds
    last_request_time, \* MultiSourceService.last_request_time
    thread,          \* each thread's position and locals inside _rate_limit
    worker,          \* concurrent callers of the caches: position and locals
    analysis_cache,  \* rows of the analysis_cache table
    id_seq,          \* the last id the analysis_cache table gave to a row
    utcnow           \* datetime.utcnow(), in days

\* the rate limiter's state
limiter_vars == <<now, last_request_time, thread>>

\* the analysis cache and its clock
analysis_vars == <<analysis_cache, id_seq, utcnow>>

\* what an entity lookup leaves alone
elsewhere == <<limiter_vars, worker, analysis_vars>>

\* the state of one entity lookup, without and with the table it shares
call_vars == <<kg_api_key, pc, call, tasks, results, combined_data, requested,
               wire_log, enriched_data, cache_log, ret>>
lookup_vars == <<call_vars, entity_cache>>

vars == <<kg_api_key, pc, call, tasks, results, combined_data, requested,
          wire_log, enriched_data, entity_cache, cache_log, ret,
          elsewhere>>

----------------------------------------------------------------------------
(* Python values *)

None == <<"None">>

\* `v is not None` where the code tests truthiness: '' counts as a value
TruthyNotNone(v) == v # None

\* bool(v) of an Optional[str]
Truthy(v) == v # None /\ v # <<>>

\* a or b
Or(a, b) == IF Truthy(a) THEN a ELSE b

\* d.get(k, default)
Get(d, k, default) == IF k \in DOMAIN d THEN d[k] ELSE default

\* d[k] = v
Put(d, k, v) == [x \in (DOMAIN d) \cup {k} |-> IF x = k THEN v ELSE d[x]]

\* d.update(e)
Update(d, e) == [x \in (DOMAIN d) \cup (DOMAIN e) |-> IF x \in DOMAIN e THEN e[x] ELSE d[x]]

UpperCase == <<"A","B","C","D","E","F","G","H","I","J","K","L","M",
               "N","O","P","Q","R","S","T","U","V","W","X","Y","Z">>
LowerCase == <<"a","b","c","d","e","f","g","h","i","j","k","l","m",
               "n","o","p","q","r","s","t","u","v","w","x","y","z">>

LowerChar(c) ==
    IF \E i \in 1..26 : UpperCase[i] = c
    THEN LowerCase[CHOOSE i \in 1..26 : UpperCase[i] = c]
    ELSE c

\* s.lower()
Lower(s) == [i \in 1..Len(s) |-> LowerChar(s[i])]

\* k in s
Contains(k, s) == \E i \in 0..(Len(s) - Len(k)) : SubSeq(s, i + 1, i + Len(k)) = k

\* any(word in s for word in words)
AnyIn(words, s) == \E w \in words : Contains(w, s)

\* s[:n]
Prefix(s, n) == SubSeq(s, 1, IF Len(s) < n THEN Len(s) ELSE n)

\* ' '.join(list)
RECURSIVE Join(_)
Join(list) ==
    IF list = <<>> THEN <<>>
    ELSE IF Len(list) = 1 THEN list[1]
    ELSE list[1] \o <<" ">> \o Join(Tail(list))

\* x in list
InList(x, list) == \E i \in 1..Len(list) : list[i] = x

----------------------------------------------------------------------------
(* Inputs: entity names and types, and what the providers answer *)

Gandhi == <<"G","a","n","d","h","i">>
PlayName == <<"P","l","a","y">>
EmptyName == <<>>

EntityNames == {Gandhi, PlayName, EmptyName}
EntityTypes == {"PERSON", "WORK_OF_ART", "MISC"}

kw_book == <<"b","o","o","k">>
kw_novel == <<"n","o","v","e","l">>
kw_play == <<"p","l","a","y">>

txt_lawyer == <<"l","a","w","y","e","r">>
txt_leader == <<"l","e","a","d","e","r">>
txt_philosopher == <<"p","h","i","l","o","s","o","p","h","e","r">>
txt_jurist == <<"j","u","r","i","s","t">>
txt_activist == <<"a","c","t","i","v","i","s","t">>

\* type_mapping.get(entity_type, "Thing")
type_mapping(entity_type) ==
    CASE entity_type = "PERSON" -> <<"P","e","r","s","o","n">>
      [] entity_type = "ORG" -> <<"O","r","g","a","n","i","z","a","t","i","o","n">>
      [] entity_type \in {"GPE", "LOC"} -> <<"P","l","a","c","e">>
      [] entity_type = "EVENT" -> <<"E","v","e","n","t">>
      [] entity_type = "WORK_OF_ART" -> <<"C","r","e","a","t","i","v","e","W","o","r","k">>
      [] OTHER -> <<"T","h","i","n","g">>

\* a provider call that produced no record: non-200, empty result list, or an
\* exception caught by the adapter's own try/except
NoData == [source |-> "None"]

\* What the providers hold.  A provider's answer for a name is one of the
\* records it holds for it, or nothing, or a failure; the records differ in
\* which fields are empty.  The Knowledge Graph search is filtered by
\* params['types'], so the item it returns carries that type.
KGRecord(entity_name, entity_type, description, detailed_description, url, image_url) ==
    [entity_name |-> entity_name,
     description |-> description,
     detailed_description |-> detailed_description,
     url |-> url,
     image_url |-> image_url,
     types |-> <<type_mapping(entity_type)>>,
     source |-> "Google Knowledge Graph",
     confidence |-> 100]

KGItems(entity_name, entity_type) ==
    LET full == KGRecord(entity_name, entity_type, txt_lawyer, txt_leader,
                         <<"kg:url">>, <<"kg:image">>)
        short == KGRecord(entity_name, entity_type, txt_philosopher, <<>>, <<>>, <<>>)
        blank == KGRecord(entity_name, entity_type, <<>>, <<>>, <<>>, <<>>)
    IN CASE entity_name = Gandhi -> {full, short}
         [] entity_name = PlayName -> {blank}
         [] OTHER -> {full, short, blank}

DBpediaRecord(entity_name, abstract) ==
    [entity_name |-> entity_name,
     abstract |-> abstract,
     resource_uri |-> <<"dbpedia:uri">>,
     source |-> "DBpedia"]

DBpediaItems(entity_name) ==
    CASE entity_name = Gandhi -> {DBpediaRecord(entity_name, txt_jurist)}
      [] entity_name = PlayName -> {DBpediaRecord(entity_name, <<>>)}
      [] OTHER -> {DBpediaRecord(entity_name, txt_jurist), DBpediaRecord(entity_name, <<>>)}

WikidataRecord(entity_name, description, wikipedia_url) ==
    [entity_name |-> entity_name,
     wikidata_id |-> <<"Q1001">>,
     label |-> entity_name,
     description |-> description,
     url |-> <<"wikidata:url">>,
     wikipedia_url |-> wikipedia_url,
     source |-> "Wikidata Enhanced"]

WikidataItems(entity_name) ==
    LET linked == WikidataRecord(entity_name, txt_activist, <<"wikipedia:url">>)
        bare == WikidataRecord(entity_name, <<>>, None)
    IN CASE entity_name = Gandhi -> {linked}
         [] entity_name = PlayName -> {bare}
         [] OTHER -> {linked, bare}

OpenLibraryItems(work_title) ==
    { [title |-> work_title,
       cover_url |-> None,
       url |-> <<"openlibrary:url">>,
       source |-> "OpenLibrary"] }

\* how one provider call ends: a record, no record (non-200 or nothing found),
\* or an exception (network error, timeout, malformed body) inside the adapter
Outcomes(items) ==
    { [kind |-> "data", data |-> it] : it \in items }
      \cup { [kind |-> "none", data |-> NoData], [kind |-> "raise", data |-> NoData] }

\* the adapter's try/except: every path but the normalised record returns None
AdapterResult(outcome) == IF outcome.kind = "data" THEN outcome.data ELSE NoData

----------------------------------------------------------------------------
(* MultiSourceService: provider selection and the merge, parallel mode *)

SourceKeys == <<"kg", "dbpedia", "wikidata", "openlibrary">>

\* the selection by entity_type alone, without the keywords of the name
WantsOpenLibraryByType(entity_name, entity_type) == entity_type = "WORK_OF_ART"

\* entity_type == "WORK_OF_ART" or any(keyword in entity_name.lower() ...)
WantsOpenLibrary(entity_name, entity_type) ==
    \/ entity_type = "WORK_OF_ART"
    \/ AnyIn({kw_book, kw_novel, kw_play}, Lower(entity_name))

\* the tasks dict of the parallel version
ParallelTasks(entity_name, entity_type) ==
    {"kg", "dbpedia", "wikidata"}
      \cup (IF WantsOpenLibrary(entity_name, entity_type) THEN {"openlibrary"} ELSE {})

\* combined_data as both versions first build it
NewCombinedData(entity_name, entity_type) ==
    [entity_name |-> entity_name,
     entity_type |-> entity_type,
     summary |-> None,
     description |-> None,
     url |-> None,
     sources_consulted |-> <<>>,
     confidence |-> "low"]

Completed(res) == { res[i][1] : i \in 1..Len(res) }

\* only the task that completed first is kept
ResultsGetFirstCompleted(res, source) ==
    IF res # <<>> /\ res[1][1] = source THEN res[1][2] ELSE NoData

\* results.get(source)
ResultsGet(res, source) ==
    IF source \in Completed(res)
    THEN res[CHOOSE i \in 1..Len(res) : res[i][1] = source][2]
    ELSE NoData

\* 1. Google Knowledge Graph
ParMergeKG(cd, res) ==
    LET kg_data == ResultsGet(res, "kg") IN
    IF kg_data # NoData
    THEN LET c1 == [cd EXCEPT
                      !.sources_consulted = Append(@, "Google Knowledge Graph"),
                      !.summary = Or(kg_data.detailed_description, kg_data.description),
                      !.description = kg_data.description,
                      !.url = kg_data.url,
                      !.confidence = "very high"]
         IN Put(Put(c1, "image_url", kg_data.image_url),
                "kg_confidence_score", kg_data.confidence)
    ELSE cd

AbstractLimit == 500

\* 2. DBpedia
ParMergeDBpedia(cd, res) ==
    LET dbpedia_data == ResultsGet(res, "dbpedia") IN
    IF dbpedia_data # NoData
    THEN LET c1 == [cd EXCEPT
                      !.sources_consulted = Append(@, "DBpedia"),
                      !.summary = IF ~Truthy(cd.summary)
                                  THEN Prefix(dbpedia_data.abstract, AbstractLimit)
                                  ELSE @,
                      !.confidence = IF @ = "low" THEN "high" ELSE @]
         IN Put(c1, "dbpedia_uri", dbpedia_data.resource_uri)
    ELSE cd

\* 3. Wikidata
ParMergeWikidata(cd, res) ==
    LET wikidata_data == ResultsGet(res, "wikidata") IN
    IF wikidata_data # NoData
    THEN LET c1 == [cd EXCEPT
                      !.sources_consulted = Append(@, "Wikidata"),
                      !.description = IF ~Truthy(cd.description)
                                      THEN wikidata_data.description
                                      ELSE @,
                      !.url = IF ~Truthy(cd.url) /\ Truthy(wikidata_data.wikipedia_url)
                              THEN wikidata_data.wikipedia_url
                              ELSE @,
                      !.confidence = IF @ = "low" THEN "medium" ELSE @]
         IN Put(c1, "wikidata_id", wikidata_data.wikidata_id)
    ELSE cd

\* block 4 putting its source at the head of the list
ParMergeOpenLibraryFirst(cd, res) ==
    LET ol_data == ResultsGet(res, "openlibrary") IN
    IF ol_data # NoData
    THEN Put([cd EXCEPT
                !.sources_consulted = <<"OpenLibrary">> \o @,
                !.confidence = IF @ = "low" THEN "medium" ELSE @],
             "literary_info", ol_data)
    ELSE cd

\* 4. OpenLibrary
ParMergeOpenLibrary(cd, res) ==
    LET ol_data == ResultsGet(res, "openlibrary") IN
    IF ol_data # NoData
    THEN Put([cd EXCEPT
                !.sources_consulted = Append(@, "OpenLibrary"),
                !.confidence = IF @ = "low" THEN "medium" ELSE @],
             "literary_info", ol_data)
    ELSE cd

\* the tier with `num_sources > 3` for the top tier
ParDetermineConfidenceOffByOne(cd) ==
    LET num_sources == Len(cd.sources_consulted)
        c1 == IF num_sources > 3
              THEN [cd EXCEPT !.confidence = "very high (cross-verified)"]
              ELSE IF num_sources = 2
              THEN [cd EXCEPT !.confidence = "high (verified)"]
              ELSE IF num_sources = 1 /\ InList("Google Knowledge Graph", cd.sources_consulted)
              THEN [cd EXCEPT !.confidence = "high"]
              ELSE cd
    IN IF num_sources = 0
       THEN [c1 EXCEPT !.summary = <<"No information found in authoritative sources">>,
                       !.confidence = "none"]
       ELSE c1

\* Determine confidence
ParDetermineConfidence(cd) ==
    LET num_sources == Len(cd.sources_consulted)
        c1 == IF num_sources >= 3
              THEN [cd EXCEPT !.confidence = "very high (cross-verified)"]
              ELSE IF num_sources = 2
              THEN [cd EXCEPT !.confidence = "high (verified)"]
              ELSE IF num_sources = 1 /\ InList("Google Knowledge Graph", cd.sources_consulted)
              THEN [cd EXCEPT !.confidence = "high"]
              ELSE cd
    IN IF num_sources = 0
       THEN [c1 EXCEPT !.summary = <<"No information found in authoritative sources">>,
                       !.confidence = "none"]
       ELSE c1

\* "Process results": the four blocks in their fixed order, then the tier
ParProcessResults(cd, res) ==
    ParDetermineConfidence(
        ParMergeOpenLibrary(ParMergeWikidata(ParMergeDBpedia(ParMergeKG(cd, res), res), res), res))

----------------------------------------------------------------------------
(* MultiSourceService: the merge, sequential mode (its own copy in the code) *)

SeqNewCombinedData(entity_name, entity_type) ==
    [entity_name |-> entity_name,
     entity_type |-> entity_type,
     summary |-> None,
     description |-> None,
     url |-> None,
     sources_consulted |-> <<>>,
     confidence |-> "low"]

\* 1. Try Google Knowledge Graph first
SeqMergeKG(cd, kg_data) ==
    IF kg_data # NoData
    THEN LET c1 == [cd EXCEPT
                      !.sources_consulted = Append(@, "Google Knowledge Graph"),
                      !.summary = Or(kg_data.detailed_description, kg_data.description),
                      !.description = kg_data.description,
                      !.url = kg_data.url,
                      !.confidence = "very high"]
         IN Put(Put(c1, "image_url", kg_data.image_url),
                "kg_confidence_score", kg_data.confidence)
    ELSE cd

\* 2. Try DBpedia
SeqMergeDBpedia(cd, dbpedia_data) ==
    IF dbpedia_data # NoData
    THEN LET c1 == [cd EXCEPT
                      !.sources_consulted = Append(@, "DBpedia"),
                      !.summary = IF ~Truthy(cd.summary)
                                  THEN Prefix(dbpedia_data.abstract, AbstractLimit)
                                  ELSE @,
                      !.confidence = IF @ = "low" THEN "high" ELSE @]
         IN Put(c1, "dbpedia_uri", dbpedia_data.resource_uri)
    ELSE cd

\* block 3 taking the Wikidata page of the entity, not its Wikipedia page,
\* for the url
SeqMergeWikidataOwnUrl(cd, wikidata_data) ==
    IF wikidata_data # NoData
    THEN LET c1 == [cd EXCEPT
                      !.sources_consulted = Append(@, "Wikidata"),
                      !.description = IF ~Truthy(cd.description)
                                      THEN wikidata_data.description
                                      ELSE @,
                      !.url = IF ~Truthy(cd.url) THEN wikidata_data.url ELSE @,
                      !.confidence = IF @ = "low" THEN "medium" ELSE @]
         IN Put(c1, "wikidata_id", wikidata_data.wikidata_id)
    ELSE cd

\* 3. Try Wikidata Enhanced
SeqMergeWikidata(cd, wikidata_data) ==
    IF wikidata_data # NoData
    THEN LET c1 == [cd EXCEPT
                      !.sources_consulted = Append(@, "Wikidata"),
                      !.description = IF ~Truthy(cd.description)
                                      THEN wikidata_data.description
                                      ELSE @,
                      !.url = IF ~Truthy(cd.url) /\ Truthy(wikidata_data.wikipedia_url)
                              THEN wikidata_data.wikipedia_url
                              ELSE @,
                      !.confidence = IF @ = "low" THEN "medium" ELSE @]
         IN Put(c1, "wikidata_id", wikidata_data.wikidata_id)
    ELSE cd

\* 4. For literary works, try OpenLibrary
SeqMergeOpenLibrary(cd, ol_data) ==
    IF ol_data # NoData
    THEN Put([cd EXCEPT
                !.sources_consulted = Append(@, "OpenLibrary"),
                !.confidence = IF @ = "low" THEN "medium" ELSE @],
             "literary_info", ol_data)
    ELSE cd

\* Determine overall confidence based on number of sources
SeqDetermineConfidence(cd) ==
    LET num_sources == Len(cd.sources_consulted)
        c1 == IF num_sources >= 3
              THEN [cd EXCEPT !.confidence = "very high (cross-verified)"]
              ELSE IF num_sources = 2
              THEN [cd EXCEPT !.confidence = "high (verified)"]
              ELSE IF num_sources = 1 /\ InList("Google Knowledge Graph", cd.sources_consulted)
              THEN [cd EXCEPT !.confidence = "high"]
              ELSE cd
    IN IF num_sources = 0
       THEN [c1 EXCEPT !.summary = <<"No information found in authoritative sources">>,
                       !.confidence = "none"]
       ELSE c1

----------------------------------------------------------------------------
(* WikipediaService: classification of a multi-source record *)

kw_creativework == <<"c","r","e","a","t","i","v","e","w","o","r","k">>
kw_person == <<"p","e","r","s","o","n">>
kw_place == <<"p","l","a","c","e">>
kw_event == <<"e","v","e","n","t">>
kw_mythology == <<"m","y","t","h","o","l","o","g","y">>
kw_mythological == <<"m","y","t","h","o","l","o","g","i","c","a","l">>
kw_folklore == <<"f","o","l","k","l","o","r","e">>
kw_legend == <<"l","e","g","e","n","d">>
kw_ancient == <<"a","n","c","i","e","n","t">>
kw_classical == <<"c","l","a","s","s","i","c","a","l">>
kw_medieval == <<"m","e","d","i","e","v","a","l">>
kw_historical == <<"h","i","s","t","o","r","i","c","a","l">>
kw_philosophy == <<"p","h","i","l","o","s","o","p","h","y">>
kw_philosophical == <<"p","h","i","l","o","s","o","p","h","i","c","a","l">>
kw_philosopher == <<"p","h","i","l","o","s","o","p","h","e","r">>
kw_religion == <<"r","e","l","i","g","i","o","n">>
kw_religious == <<"r","e","l","i","g","i","o","u","s">>
kw_spiritual == <<"s","p","i","r","i","t","u","a","l">>
kw_sacred == <<"s","a","c","r","e","d">>
kw_literature == <<"l","i","t","e","r","a","t","u","r","e">>
kw_literary == <<"l","i","t","e","r","a","r","y">>
kw_poetry == <<"p","o","e","t","r","y">>

\* "Fallback to entity type", the tail of _classify_from_multi_source
ClassifyByEntityType(entity_type) ==
    IF entity_type = "WORK_OF_ART" THEN "artistic"
    ELSE IF entity_type \in {"PERSON", "ORG"} THEN "biographical"
    ELSE IF entity_type \in {"GPE", "LOC"} THEN "geographical"
    ELSE "general"

\* "Check description for keywords".  str + None raises TypeError, and
\* multi_data always has the keys "description" and "summary", so the
\* defaults of .get never apply.
ClassifyByDescription(entity_type, multi_data) ==
    LET d == Get(multi_data, "description", <<>>)
        su == Get(multi_data, "summary", <<>>)
    IN IF d = None \/ su = None
       THEN [raised |-> TRUE, value |-> "TypeError"]
       ELSE LET description == Lower(d \o <<" ">> \o su) IN
            [raised |-> FALSE,
             value |->
               IF AnyIn({kw_mythology, kw_mythological, kw_folklore, kw_legend}, description)
               THEN "mythological"
               ELSE IF AnyIn({kw_ancient, kw_classical, kw_medieval, kw_historical}, description)
               THEN "historical"
               ELSE IF AnyIn({kw_philosophy, kw_philosophical, kw_philosopher}, description)
               THEN "philosophical"
               ELSE IF AnyIn({kw_religion, kw_religious, kw_spiritual, kw_sacred}, description)
               THEN "religious"
               ELSE ClassifyByEntityType(entity_type)]

\* _classify_from_multi_source: [raised, value]
classify_from_multi_source(entity_type, multi_data) ==
    IF Get(multi_data, "literary_info", NoData) # NoData
    THEN [raised |-> FALSE, value |-> "literary"]
    ELSE LET kg_types == Get(multi_data, "types", <<>>)
             types_str == Lower(Join(kg_types))
         IN IF Contains(kw_book, types_str) \/ Contains(kw_creativework, types_str)
            THEN [raised |-> FALSE, value |-> "literary"]
            ELSE IF Contains(kw_person, types_str)
            THEN [raised |-> FALSE, value |-> "biographical"]
            ELSE IF Contains(kw_place, types_str)
            THEN [raised |-> FALSE, value |-> "geographical"]
            ELSE IF Contains(kw_event, types_str)
            THEN [raised |-> FALSE, value |-> "historical"]
            ELSE ClassifyByDescription(entity_type, multi_data)

----------------------------------------------------------------------------
(* WikipediaService: the Wikipedia and Wikidata-only lookups *)

MaxSentences == 3
SummaryLimit == 300

\* index of the first ". " in s at or after position i, 0 if there is none
FindSep(s, i) ==
    LET hits == { j \in i..(Len(s) - 1) : s[j] = "." /\ s[j + 1] = " " } IN
    IF hits = {} THEN 0 ELSE CHOOSE j \in hits : \A k \in hits : j <= k

\* index of the n-th ". " of s.split('. '), 0 if there are fewer
RECURSIVE NthSep(_, _, _)
NthSep(s, i, n) ==
    LET j == FindSep(s, i) IN
    IF j = 0 THEN 0
    ELSE IF n = 1 THEN j
    ELSE NthSep(s, j + 2, n - 1)

EndsWithPeriod(s) == Len(s) > 0 /\ s[Len(s)] = "."

\* _extract_summary
extract_summary(full_summary, max_sentences) ==
    IF full_summary = <<>> THEN <<>>
    ELSE LET cut == NthSep(full_summary, 1, max_sentences)
             joined == IF cut = 0 THEN full_summary ELSE SubSeq(full_summary, 1, cut - 1)
             ended == IF EndsWithPeriod(joined) THEN joined ELSE joined \o <<".">>
         IN IF Len(ended) > SummaryLimit
            THEN Prefix(ended, SummaryLimit - 3) \o <<".", ".", ".">>
            ELSE ended

CategoryPrefix == <<"C","a","t","e","g","o","r","y",":">>

\* category.replace('Category:', '') for the keys wikipediaapi returns, which
\* carry the prefix once, at the start
StripCategory(category) ==
    IF Len(category) >= Len(CategoryPrefix)
       /\ SubSeq(category, 1, Len(CategoryPrefix)) = CategoryPrefix
    THEN SubSeq(category, Len(CategoryPrefix) + 1, Len(category))
    ELSE category

kw_history == <<"h","i","s","t","o","r","y">>
kw_culture == <<"c","u","l","t","u","r","e">>
kw_cultural == <<"c","u","l","t","u","r","a","l">>
kw_art == <<"a","r","t">>
kw_architecture == <<"a","r","c","h","i","t","e","c","t","u","r","e">>
kw_tradition == <<"t","r","a","d","i","t","i","o","n">>

cultural_keywords ==
    {kw_history, kw_historical, kw_culture, kw_cultural, kw_literature, kw_literary,
     kw_mythology, kw_mythological, kw_ancient, kw_classical, kw_philosophy,
     kw_philosophical, kw_religion, kw_religious, kw_art, kw_architecture,
     kw_tradition, kw_folklore, kw_legend}

\* _get_cultural_categories
RECURSIVE get_cultural_categories(_)
get_cultural_categories(categories) ==
    IF categories = <<>> THEN <<>>
    ELSE LET cat_name == StripCategory(Head(categories))
             rest == get_cultural_categories(Tail(categories))
         IN IF AnyIn(cultural_keywords, Lower(cat_name))
            THEN <<cat_name>> \o rest
            ELSE rest

\* _classify_cultural_significance
classify_cultural_significance(entity_type, categories) ==
    LET categories_text == Lower(Join(categories)) IN
    IF AnyIn({kw_mythology, kw_mythological, kw_folklore}, categories_text)
    THEN "mythological"
    ELSE IF AnyIn({kw_ancient, kw_classical, kw_medieval}, categories_text)
    THEN "historical"
    ELSE IF AnyIn({kw_literature, kw_literary, kw_novel, kw_poetry}, categories_text)
    THEN "literary"
    ELSE IF AnyIn({kw_philosophy, kw_philosophical}, categories_text)
    THEN "philosophical"
    ELSE IF AnyIn({kw_religion, kw_religious, kw_spiritual}, categories_text)
    THEN "religious"
    ELSE IF entity_type = "WORK_OF_ART" THEN "artistic"
    ELSE IF entity_type \in {"PERSON", "ORG"} THEN "biographical"
    ELSE IF entity_type \in {"GPE", "LOC"} THEN "geographical"
    ELSE "general"

TopCategories == 5

txt_four_sentences == <<"A", ".", " ", "B", ".", " ", "C", ".", " ", "D">>
cat_ancient == CategoryPrefix \o <<"A","n","c","i","e","n","t">>
cat_births == CategoryPrefix \o <<"B","i","r","t","h","s">>

\* the pages Wikipedia may hold for a title
WikipediaPages ==
    { [summary |-> txt_four_sentences, fullurl |-> <<"wikipedia:page">>,
       categories |-> <<cat_births>>],
      [summary |-> <<>>, fullurl |-> <<"wikipedia:page">>,
       categories |-> <<cat_births, cat_ancient>>] }

\* how get_entity_summary ends: the page exists; it does not and the search's
\* first hit is taken; it does not and the search finds nothing (or fails);
\* or an exception
WikipediaOutcomes ==
    { [kind |-> k, page |-> pg] : k \in {"direct", "search_hit"}, pg \in WikipediaPages }
      \cup { [kind |-> "not_found", page |-> NoData], [kind |-> "raise", page |-> NoData] }

\* get_entity_summary's dictionary, or None
entity_summary(entity_name, entity_type, outcome) ==
    IF outcome.kind \in {"direct", "search_hit"}
    THEN LET categories == get_cultural_categories(outcome.page.categories) IN
         [entity_name |-> entity_name,
          entity_type |-> entity_type,
          summary |-> extract_summary(outcome.page.summary, MaxSentences),
          url |-> outcome.page.fullurl,
          categories |-> Prefix(categories, TopCategories),
          cultural_significance |-> classify_cultural_significance(entity_type, categories),
          source |-> <<"Wikipedia">>]
    ELSE NoData

\* get_wikidata_info's dictionary, or None
WikidataInfoOutcomes ==
    { [kind |-> "data",
       data |-> [wikidata_id |-> <<"Q1001">>, description |-> d,
                 url |-> <<"wikidata:url">>]] : d \in {<<>>, txt_activist} }
      \cup { [kind |-> "none", data |-> NoData], [kind |-> "raise", data |-> NoData] }

\* enriched_data as enrich_entity first builds it
NewEnrichedData(entity_name, entity_type) ==
    [entity_name |-> entity_name,
     entity_type |-> entity_type,
     summary |-> None,
     url |-> None,
     wikidata |-> NoData,
     cultural_significance |-> "unknown",
     source |-> None,
     confidence |-> "low",
     sources_consulted |-> <<>>]

\* f"Multi-Source ({n} sources)"
MultiSourceLabel(n) ==
    CASE n = 1 -> <<"Multi-Source (1 sources)">>
      [] n = 2 -> <<"Multi-Source (2 sources)">>
      [] n = 3 -> <<"Multi-Source (3 sources)">>
      [] OTHER -> <<"Multi-Source (4 sources)">>

\* enriched_data.update({...}) with the multi-source record
UpdateFromMultiSource(ed, multi_data) ==
    Update(ed,
       [summary |-> Or(Get(multi_data, "summary", None), Get(multi_data, "description", None)),
        description |-> Get(multi_data, "description", None),
        url |-> Get(multi_data, "url", None),
        image_url |-> Get(multi_data, "image_url", None),
        confidence |-> Get(multi_data, "confidence", "None"),
        sources_consulted |-> Get(multi_data, "sources_consulted", <<>>),
        source |-> MultiSourceLabel(Len(Get(multi_data, "sources_consulted", <<>>))),
        wikidata_id |-> Get(multi_data, "wikidata_id", None),
        dbpedia_uri |-> Get(multi_data, "dbpedia_uri", None),
        literary_info |-> Get(multi_data, "literary_info", NoData)])

----------------------------------------------------------------------------
(* Rate limiter: MultiSourceService._rate_limit, one step per statement *)

min_request_interval == 100

\* the services the sequential adapters throttle (two of the four suffice)
LimitedServices == {"dbpedia", "wikidata"}

Threads == {"t1", "t2"}

\* time.time() when the service starts, the clock's step and its last value
StartTime == 1000
TickMs == 50
MaxTime == 1200

NotInRateLimit ==
    [pc |-> "idle", service_name |-> "", current_time |-> 0, last_time |-> 0,
     wake |-> 0]

LimiterInit ==
    /\ now = StartTime
    /\ last_request_time = [s \in {} |-> 0]
    /\ thread = [t \in Threads |-> NotInRateLimit]

\* self.last_request_time.get(service_name, 0)
LastRequestTime(service_name) ==
    IF service_name \in DOMAIN last_request_time
    THEN last_request_time[service_name] ELSE 0

SleepTimeZero(time_since_last) == 0

\* the argument of time.sleep
SleepTime(time_since_last) == min_request_interval - time_since_last

\* the call; a parallel caller passes skip_for_parallel and returns at once
RateLimitCall(t) ==
    /\ thread[t].pc \in {"idle", "done"}
    /\ \E service_name \in LimitedServices, skip_for_parallel \in BOOLEAN :
         thread' = [thread EXCEPT ![t] =
            IF skip_for_parallel THEN @
            ELSE [NotInRateLimit EXCEPT !.pc = "time",
                                        !.service_name = service_name]]
    /\ UNCHANGED <<now, last_request_time, lookup_vars, worker, analysis_vars>>

\* current_time = time.time()
ReadTime(t) ==
    /\ thread[t].pc = "time"
    /\ thread' = [thread EXCEPT ![t].pc = "get", ![t].current_time = now]
    /\ UNCHANGED <<now, last_request_time, lookup_vars, worker, analysis_vars>>

\* last_time = self.last_request_time.get(service_name, 0)
ReadLast(t) ==
    /\ thread[t].pc = "get"
    /\ thread' = [thread EXCEPT ![t].pc = "check",
                    ![t].last_time = LastRequestTime(thread[t].service_name)]
    /\ UNCHANGED <<now, last_request_time, lookup_vars, worker, analysis_vars>>

\* the interval test; time.sleep is entered here and returns no earlier than
\* its argument later
CheckInterval(t) ==
    /\ thread[t].pc = "check"
    /\ LET time_since_last == thread[t].current_time - thread[t].last_time
       IN  thread' = [thread EXCEPT ![t] =
              IF time_since_last < min_request_interval
              THEN [@ EXCEPT !.pc = "sleep",
                             !.wake = now + SleepTime(time_since_last)]
              ELSE [@ EXCEPT !.pc = "set"]]
    /\ UNCHANGED <<now, last_request_time, lookup_vars, worker, analysis_vars>>

WakeUp(t) ==
    /\ thread[t].pc = "sleep"
    /\ now >= thread[t].wake
    /\ thread' = [thread EXCEPT ![t].pc = "set"]
    /\ UNCHANGED <<now, last_request_time, lookup_vars, worker, analysis_vars>>

\* self.last_request_time[service_name] = time.time(); last_time and wake stay
\* in the thread's record until its next call
SetLast(t) ==
    /\ thread[t].pc = "set"
    /\ last_request_time' =
         [s \in DOMAIN last_request_time \cup {thread[t].service_name} |->
            IF s = thread[t].service_name THEN now ELSE last_request_time[s]]
    /\ thread' = [thread EXCEPT ![t].pc = "done", ![t].current_time = 0]
    /\ UNCHANGED <<now, lookup_vars, worker, analysis_vars>>

Tick ==
    /\ now < MaxTime
    /\ now' = now + TickMs
    /\ UNCHANGED <<last_request_time, thread, lookup_vars, worker, analysis_vars>>

----------------------------------------------------------------------------
(* State *)

Workers == {"w1", "w2"}

Idle == [pc |-> "idle"]

Unset == [unset |-> TRUE]

Init ==
    /\ kg_api_key \in BOOLEAN
    /\ pc = "idle"
    /\ call = Unset
    /\ tasks = {}
    /\ results = <<>>
    /\ combined_data = Unset
    /\ requested = {}
    /\ wire_log = <<>>
    /\ enriched_data = Unset
    /\ entity_cache = {}
    /\ cache_log = <<>>
    /\ ret = Unset
    /\ LimiterInit
    /\ worker = [w \in Workers |-> Idle]
    /\ analysis_cache = {}
    /\ id_seq = 0
    /\ utcnow = 0

\* get_comprehensive_info dispatches on `parallel`; the parallel version builds
\* combined_data and the task table and submits every task, the sequential
\* version builds combined_data and goes to its first provider
StartAggregator(entity_name, entity_type, parallel) ==
    IF parallel
    THEN /\ combined_data' = NewCombinedData(entity_name, entity_type)
         /\ tasks' = ParallelTasks(entity_name, entity_type)
         /\ results' = <<>>
         /\ pc' = "par_join"
    ELSE /\ combined_data' = SeqNewCombinedData(entity_name, entity_type)
         /\ tasks' = {}
         /\ results' = <<>>
         /\ pc' = "seq_kg"

\* get_comprehensive_info with a guard that rejects an empty entity_name
\* before any provider is selected
GetComprehensiveInfoValidating ==
    /\ pc = "idle"
    /\ \E n \in EntityNames, t \in EntityTypes, p \in BOOLEAN :
          /\ call' = [fn |-> "get_comprehensive_info",
                      entity_name |-> n, entity_type |-> t, parallel |-> p]
          /\ IF n = <<>>
             THEN /\ ret' = [error |-> "entity_name is empty"]
                  /\ pc' = "done"
                  /\ UNCHANGED <<tasks, results, combined_data>>
             ELSE /\ StartAggregator(n, t, p)
                  /\ UNCHANGED ret
    /\ UNCHANGED <<elsewhere, kg_api_key, requested, wire_log, enriched_data,
                   entity_cache, cache_log>>

\* a caller invokes multi_source_service.get_comprehensive_info directly
GetComprehensiveInfo ==
    /\ pc = "idle"
    /\ \E n \in EntityNames, t \in EntityTypes, p \in BOOLEAN :
          /\ call' = [fn |-> "get_comprehensive_info",
                      entity_name |-> n, entity_type |-> t, parallel |-> p]
          /\ StartAggregator(n, t, p)
    /\ UNCHANGED <<elsewhere, kg_api_key, requested, wire_log, enriched_data,
                   entity_cache, cache_log, ret>>

Pending(source) == pc = "par_join" /\ source \in tasks \ Completed(results)

\* a pool thread finishes fetch_kg
fetch_kg ==
    /\ Pending("kg")
    /\ IF ~kg_api_key
       THEN /\ results' = Append(results, <<"kg", NoData>>)
            /\ UNCHANGED requested
       ELSE /\ \E o \in Outcomes(KGItems(call.entity_name, call.entity_type)) :
                  results' = Append(results, <<"kg", AdapterResult(o)>>)
            /\ requested' = requested \cup {"kg"}
    /\ UNCHANGED <<elsewhere, kg_api_key, pc, call, tasks, combined_data, wire_log,
                   enriched_data, entity_cache, cache_log, ret>>

\* a fetch_dbpedia that goes through the rate limiter: it waits for the
\* interval since the last dbpedia call and stamps the map
fetch_dbpedia_throttled ==
    /\ Pending("dbpedia")
    /\ now - (IF "dbpedia" \in DOMAIN last_request_time
              THEN last_request_time["dbpedia"] ELSE 0) >= min_request_interval
    /\ last_request_time' =
         [s \in DOMAIN last_request_time \cup {"dbpedia"} |->
            IF s = "dbpedia" THEN now ELSE last_request_time[s]]
    /\ \E o \in Outcomes(DBpediaItems(call.entity_name)) :
          results' = Append(results, <<"dbpedia", AdapterResult(o)>>)
    /\ requested' = requested \cup {"dbpedia"}
    /\ UNCHANGED <<now, thread, worker, analysis_vars, kg_api_key, pc, call, tasks,
                   combined_data, wire_log, enriched_data, entity_cache, cache_log, ret>>

\* a fetch_dbpedia whose request has no timeout and never returns
fetch_dbpedia_hanging ==
    /\ Pending("dbpedia")
    /\ UNCHANGED vars

\* a pool thread finishes fetch_dbpedia
fetch_dbpedia ==
    /\ Pending("dbpedia")
    /\ \E o \in Outcomes(DBpediaItems(call.entity_name)) :
          results' = Append(results, <<"dbpedia", AdapterResult(o)>>)
    /\ requested' = requested \cup {"dbpedia"}
    /\ UNCHANGED <<elsewhere, kg_api_key, pc, call, tasks, combined_data, wire_log,
                   enriched_data, entity_cache, cache_log, ret>>

\* a pool thread finishes fetch_wikidata
fetch_wikidata ==
    /\ Pending("wikidata")
    /\ \E o \in Outcomes(WikidataItems(call.entity_name)) :
          results' = Append(results, <<"wikidata", AdapterResult(o)>>)
    /\ requested' = requested \cup {"wikidata"}
    /\ UNCHANGED <<elsewhere, kg_api_key, pc, call, tasks, combined_data, wire_log,
                   enriched_data, entity_cache, cache_log, ret>>

\* a pool thread finishes fetch_openlibrary
fetch_openlibrary ==
    /\ Pending("openlibrary")
    /\ \E o \in Outcomes(OpenLibraryItems(call.entity_name)) :
          results' = Append(results, <<"openlibrary", AdapterResult(o)>>)
    /\ requested' = requested \cup {"openlibrary"}
    /\ UNCHANGED <<elsewhere, kg_api_key, pc, call, tasks, combined_data, wire_log,
                   enriched_data, entity_cache, cache_log, ret>>

\* the `with ThreadPoolExecutor` block ends when every future has completed;
\* the caller then processes the results and returns combined_data
ParallelJoin ==
    /\ pc = "par_join"
    /\ Completed(results) = tasks
    /\ combined_data' = ParProcessResults(combined_data, results)
    /\ pc' = "agg_return"
    /\ UNCHANGED <<elsewhere, kg_api_key, call, tasks, results, requested, wire_log,
                   enriched_data, entity_cache, cache_log, ret>>

\* what an adapter of the sequential version does on the wire: _rate_limit
\* for its service name, then its requests.get calls, one after the other
Wire(service_name, gets) ==
    <<[op |-> "throttle", service |-> service_name]>>
      \o [i \in 1..gets |-> [op |-> "get", service |-> service_name]]

\* get_wikidata_enhanced searches (wbsearchentities) and, when the search
\* found an entity, asks for its details (wbgetentities): a record comes
\* after both requests, nothing or an exception after either
WikidataRequests(o) == IF o.kind = "data" THEN {2} ELSE {1, 2}

\* get_knowledge_graph_info without the test of the API key: the request is
\* sent with whatever key there is
get_knowledge_graph_info_unkeyed ==
    /\ pc = "seq_kg"
    /\ \E o \in Outcomes(KGItems(call.entity_name, call.entity_type)) :
          /\ combined_data' = SeqMergeKG(combined_data, AdapterResult(o))
          /\ results' = Append(results, <<"kg", AdapterResult(o)>>)
    /\ wire_log' = wire_log \o Wire("knowledge_graph", 1)
    /\ requested' = requested \cup {"kg"}
    /\ pc' = "seq_dbpedia"
    /\ UNCHANGED <<elsewhere, kg_api_key, call, tasks, enriched_data,
                   entity_cache, cache_log, ret>>

\* get_knowledge_graph_info, then block 1 of the sequential version
get_knowledge_graph_info ==
    /\ pc = "seq_kg"
    /\ IF ~kg_api_key
       THEN /\ combined_data' = SeqMergeKG(combined_data, NoData)
            /\ results' = Append(results, <<"kg", NoData>>)
            /\ UNCHANGED <<requested, wire_log>>
       ELSE /\ \E o \in Outcomes(KGItems(call.entity_name, call.entity_type)) :
                  /\ combined_data' = SeqMergeKG(combined_data, AdapterResult(o))
                  /\ results' = Append(results, <<"kg", AdapterResult(o)>>)
            /\ wire_log' = wire_log \o Wire("knowledge_graph", 1)
            /\ requested' = requested \cup {"kg"}
    /\ pc' = "seq_dbpedia"
    /\ UNCHANGED <<elsewhere, kg_api_key, call, tasks, enriched_data,
                   entity_cache, cache_log, ret>>

\* get_dbpedia_info whose failure ends the chain: the remaining providers
\* are not tried
get_dbpedia_info_aborting ==
    /\ pc = "seq_dbpedia"
    /\ \E o \in Outcomes(DBpediaItems(call.entity_name)) :
          /\ results' = Append(results, <<"dbpedia", AdapterResult(o)>>)
          /\ IF o.kind = "data"
             THEN /\ combined_data' = SeqMergeDBpedia(combined_data, AdapterResult(o))
                  /\ pc' = "seq_wikidata"
             ELSE /\ combined_data' = SeqDetermineConfidence(combined_data)
                  /\ pc' = "agg_return"
    /\ wire_log' = wire_log \o Wire("dbpedia", 1)
    /\ requested' = requested \cup {"dbpedia"}
    /\ UNCHANGED <<elsewhere, kg_api_key, call, tasks, enriched_data,
                   entity_cache, cache_log, ret>>

\* get_dbpedia_info, then block 2
get_dbpedia_info ==
    /\ pc = "seq_dbpedia"
    /\ \E o \in Outcomes(DBpediaItems(call.entity_name)) :
          /\ combined_data' = SeqMergeDBpedia(combined_data, AdapterResult(o))
          /\ results' = Append(results, <<"dbpedia", AdapterResult(o)>>)
    /\ wire_log' = wire_log \o Wire("dbpedia", 1)
    /\ requested' = requested \cup {"dbpedia"}
    /\ pc' = "seq_wikidata"
    /\ UNCHANGED <<elsewhere, kg_api_key, call, tasks, enriched_data,
                   entity_cache, cache_log, ret>>

\* get_wikidata_enhanced, then block 3; when OpenLibrary is not wanted the
\* version goes on to the confidence tier and returns
get_wikidata_enhanced ==
    /\ pc = "seq_wikidata"
    /\ \E o \in Outcomes(WikidataItems(call.entity_name)) :
          LET c1 == SeqMergeWikidata(combined_data, AdapterResult(o)) IN
          /\ results' = Append(results, <<"wikidata", AdapterResult(o)>>)
          /\ IF WantsOpenLibrary(call.entity_name, call.entity_type)
             THEN /\ combined_data' = c1
                  /\ pc' = "seq_openlibrary"
             ELSE /\ combined_data' = SeqDetermineConfidence(c1)
                  /\ pc' = "agg_return"
          /\ \E n \in WikidataRequests(o) : wire_log' = wire_log \o Wire("wikidata", n)
    /\ requested' = requested \cup {"wikidata"}
    /\ UNCHANGED <<elsewhere, kg_api_key, call, tasks, enriched_data,
                   entity_cache, cache_log, ret>>

\* get_openlibrary_info, then block 4, the confidence tier and the return
get_openlibrary_info ==
    /\ pc = "seq_openlibrary"
    /\ \E o \in Outcomes(OpenLibraryItems(call.entity_name)) :
          /\ combined_data' =
                SeqDetermineConfidence(SeqMergeOpenLibrary(combined_data, AdapterResult(o)))
          /\ results' = Append(results, <<"openlibrary", AdapterResult(o)>>)
    /\ wire_log' = wire_log \o Wire("openlibrary", 1)
    /\ requested' = requested \cup {"openlibrary"}
    /\ pc' = "agg_return"
    /\ UNCHANGED <<elsewhere, kg_api_key, call, tasks, enriched_data,
                   entity_cache, cache_log, ret>>

\* get_comprehensive_info returns combined_data to a direct caller
ReturnComprehensiveInfo ==
    /\ pc = "agg_return"
    /\ call.fn = "get_comprehensive_info"
    /\ ret' = combined_data
    /\ pc' = "done"
    /\ UNCHANGED <<elsewhere, kg_api_key, call, tasks, results, combined_data, requested,
                   wire_log, enriched_data, entity_cache, cache_log>>

\* the caller takes the result; the locals of the call are gone
Finish ==
    /\ pc = "done"
    /\ pc' = "idle"
    /\ call' = Unset
    /\ tasks' = {}
    /\ results' = <<>>
    /\ combined_data' = Unset
    /\ requested' = {}
    /\ wire_log' = <<>>
    /\ enriched_data' = Unset
    /\ cache_log' = <<>>
    /\ ret' = Unset
    /\ UNCHANGED <<elsewhere, kg_api_key, entity_cache>>

----------------------------------------------------------------------------
(* database.py: the entity_cache table, unique on (entity_name, entity_type) *)

\* select('*').eq('entity_name', ...).eq('entity_type', ...)
CacheRows(cache, entity_name, entity_type) ==
    { r \in cache : r.entity_name = entity_name /\ r.entity_type = entity_type }

\* a lookup that matches no row
get_cached_entity_no_match(cache, entity_name, entity_type, store) == {NoData}

\* a lookup that answers from the table whatever the store does
get_cached_entity_unfailing(cache, entity_name, entity_type, store) ==
    IF CacheRows(cache, entity_name, entity_type) # {}
    THEN CacheRows(cache, entity_name, entity_type)
    ELSE {NoData}

\* get_cached_entity: the values it may return (response.data[0], or None when
\* there is no row or the store raises)
get_cached_entity(cache, entity_name, entity_type, store) ==
    IF store = "ok" /\ CacheRows(cache, entity_name, entity_type) # {}
    THEN CacheRows(cache, entity_name, entity_type)
    ELSE {NoData}

\* an insert that ignores the conflict key
save_entity_cache_insert(cache, entity_data, store) ==
    IF store = "ok" THEN cache \cup {entity_data} ELSE cache

\* an update that rewrites the summary of the row in place
save_entity_cache_summary_only(cache, entity_data, store) ==
    IF store # "ok" THEN cache
    ELSE IF CacheRows(cache, entity_data.entity_name, entity_data.entity_type) = {}
         THEN cache \cup {entity_data}
         ELSE { IF r.entity_name = entity_data.entity_name
                     /\ r.entity_type = entity_data.entity_type
                THEN [r EXCEPT !.summary = entity_data.summary] ELSE r : r \in cache }

\* save_entity_cache: upsert on conflict (entity_name, entity_type); a store
\* failure is caught and leaves the table as it was
save_entity_cache(cache, entity_data, store) ==
    IF store = "ok"
    THEN (cache \ CacheRows(cache, entity_data.entity_name, entity_data.entity_type))
           \cup {entity_data}
    ELSE cache

\* what save_entity_cache returns: response.data[0], or None when the store
\* raises
SavedEntity(entity_data, store) == IF store = "ok" THEN entity_data ELSE NoData

StoreOutcomes == {"ok", "raise"}

----------------------------------------------------------------------------
(* NLPEnrichmentService.enrich_entity and WikipediaService.enrich_entity *)

\* analyze_text_with_entities passes entities the recogniser found: stripped
\* names of at least min_entity_length characters, with a cultural entity type
EnrichInputs == { <<Gandhi, "PERSON">>, <<PlayName, "WORK_OF_ART">> }

\* cache_data, the row enrich_entity saves
CacheData(entity_text, entity_type, enrichment) ==
    [entity_name |-> entity_text,
     entity_type |-> entity_type,
     summary |-> Get(enrichment, "summary", None),
     url |-> Get(enrichment, "url", None),
     categories |-> Get(enrichment, "categories", <<>>),
     cultural_significance |-> Get(enrichment, "cultural_significance", "general"),
     wikidata |-> Get(enrichment, "wikidata", NoData),
     source |-> Get(enrichment, "source", <<"Wikipedia">>)]

\* enrich_entity(entity_text, entity_type, use_cache=True): the cache lookup;
\* on a hit the row is returned, otherwise wikipedia_service.enrich_entity
\* builds enriched_data and calls get_comprehensive_info (parallel by default)
enrich_entity ==
    /\ pc = "idle"
    /\ \E in \in EnrichInputs, store \in StoreOutcomes :
         \E cached \in get_cached_entity(entity_cache, in[1], in[2], store) :
            /\ call' = [fn |-> "enrich_entity", entity_name |-> in[1],
                        entity_type |-> in[2], parallel |-> TRUE]
            /\ IF cached # NoData
               THEN /\ cache_log' = <<"get">>
                    /\ ret' = cached
                    /\ pc' = "done"
                    /\ UNCHANGED <<tasks, results, combined_data, enriched_data>>
               ELSE /\ cache_log' = <<IF store = "ok" THEN "get" ELSE "get_error">>
                    /\ enriched_data' = NewEnrichedData(in[1], in[2])
                    /\ StartAggregator(in[1], in[2], TRUE)
                    /\ UNCHANGED ret
    /\ UNCHANGED <<elsewhere, kg_api_key, requested, wire_log, entity_cache>>

\* enrich_entity without the try/except around the multi-source lookup: an
\* exception raised by the classification reaches the caller
EnrichFromMultiSourceUncaught ==
    /\ pc = "agg_return"
    /\ call.fn = "enrich_entity"
    /\ LET multi_data == combined_data IN
       IF Get(multi_data, "sources_consulted", <<>>) # <<>>
       THEN LET e1 == UpdateFromMultiSource(enriched_data, multi_data)
                c == classify_from_multi_source(call.entity_type, multi_data)
            IN IF c.raised
               THEN /\ enriched_data' = e1
                    /\ ret' = [raised |-> c.value]
                    /\ pc' = "done"
               ELSE /\ enriched_data' = [e1 EXCEPT !.cultural_significance = c.value]
                    /\ pc' = "enriched"
                    /\ UNCHANGED ret
       ELSE /\ UNCHANGED <<enriched_data, ret>>
            /\ pc' = "fallback_wikipedia"
    /\ UNCHANGED <<elsewhere, kg_api_key, call, tasks, results, combined_data, requested,
                   wire_log, entity_cache, cache_log>>

\* back in WikipediaService.enrich_entity with multi_data: the record is taken
\* when sources_consulted is non-empty; an exception raised by the
\* classification is caught by the enclosing try and the fallback runs on the
\* record as updated so far
EnrichFromMultiSource ==
    /\ pc = "agg_return"
    /\ call.fn = "enrich_entity"
    /\ LET multi_data == combined_data IN
       IF Get(multi_data, "sources_consulted", <<>>) # <<>>
       THEN LET e1 == UpdateFromMultiSource(enriched_data, multi_data)
                c == classify_from_multi_source(call.entity_type, multi_data)
            IN IF c.raised
               THEN /\ enriched_data' = e1
                    /\ pc' = "fallback_wikipedia"
               ELSE /\ enriched_data' = [e1 EXCEPT !.cultural_significance = c.value]
                    /\ pc' = "enriched"
       ELSE /\ UNCHANGED enriched_data
            /\ pc' = "fallback_wikipedia"
    /\ UNCHANGED <<elsewhere, kg_api_key, call, tasks, results, combined_data, requested,
                   wire_log, entity_cache, cache_log, ret>>

\* "Fallback to Wikipedia-only approach": get_entity_summary and what
\* enrich_entity does with it
get_entity_summary ==
    /\ pc = "fallback_wikipedia"
    /\ \E o \in WikipediaOutcomes :
         LET wiki_data == entity_summary(call.entity_name, call.entity_type, o) IN
         /\ requested' = requested \cup
                (IF o.kind \in {"search_hit", "not_found"}
                 THEN {"wikipedia", "wikipedia_search"} ELSE {"wikipedia"})
         /\ results' = Append(results, <<"wikipedia", wiki_data>>)
         /\ IF wiki_data # NoData
            THEN /\ enriched_data' =
                       [Update(enriched_data, wiki_data) EXCEPT
                          !.sources_consulted = Append(@, "Wikipedia"),
                          !.confidence = "medium (Wikipedia only)"]
                 /\ pc' = "enriched"
            ELSE /\ UNCHANGED enriched_data
                 /\ pc' = "fallback_wikidata"
    /\ UNCHANGED <<elsewhere, kg_api_key, call, tasks, combined_data,
                   wire_log, entity_cache, cache_log, ret>>

\* "Last resort: try Wikidata only": get_wikidata_info and what enrich_entity
\* does with it
get_wikidata_info ==
    /\ pc = "fallback_wikidata"
    /\ \E o \in WikidataInfoOutcomes :
         LET wikidata_info == AdapterResult(o) IN
         /\ results' = Append(results, <<"wikidata_info", wikidata_info>>)
         /\ IF wikidata_info # NoData
            THEN enriched_data' =
                 [enriched_data EXCEPT
                    !.summary = wikidata_info.description,
                    !.url = wikidata_info.url,
                    !.wikidata = wikidata_info,
                    !.source = <<"Wikidata">>,
                    !.sources_consulted = Append(@, "Wikidata"),
                    !.confidence = "low (Wikidata only)"]
            ELSE UNCHANGED enriched_data
    /\ requested' = requested \cup {"wikidata_search"}
    /\ pc' = "enriched"
    /\ UNCHANGED <<elsewhere, kg_api_key, call, tasks, combined_data,
                   wire_log, entity_cache, cache_log, ret>>

\* back in NLPEnrichmentService.enrich_entity: "Save to cache if successful",
\* then return the enrichment
EnrichReturn ==
    /\ pc = "enriched"
    /\ LET enrichment == enriched_data IN
       /\ IF Truthy(Get(enrichment, "summary", None))
          THEN /\ \E store \in StoreOutcomes :
                    entity_cache' =
                        save_entity_cache(entity_cache,
                            CacheData(call.entity_name, call.entity_type, enrichment), store)
               /\ cache_log' = Append(cache_log, "upsert")
          ELSE UNCHANGED <<entity_cache, cache_log>>
       /\ ret' = enrichment
    /\ pc' = "done"
    /\ UNCHANGED <<elsewhere, kg_api_key, call, tasks, results, combined_data, requested,
                   wire_log, enriched_data>>

AggregatorStep ==
    \/ fetch_kg
    \/ fetch_dbpedia
    \/ fetch_wikidata
    \/ fetch_openlibrary
    \/ ParallelJoin

SequentialStep ==
    \/ get_knowledge_graph_info
    \/ get_dbpedia_info
    \/ get_wikidata_enhanced
    \/ get_openlibrary_info

\* direct use of the aggregator, in either mode
NextAggregator ==
    \/ GetComprehensiveInfo
    \/ AggregatorStep
    \/ SequentialStep
    \/ ReturnComprehensiveInfo
    \/ Finish

SpecAggregator == Init /\ [][NextAggregator]_vars

\* the entity pipeline: enrich calls, one after the other, on a shared cache
Next ==
    \/ enrich_entity
    \/ AggregatorStep
    \/ EnrichFromMultiSource
    \/ get_entity_summary
    \/ get_wikidata_info
    \/ EnrichReturn
    \/ Finish

Spec == Init /\ [][Next]_vars

\* a provider call of an enrich call ends.  Every request carries a timeout
\* (multi_source_service.py:65-69, 131, 227-231, 335-339), so a call that has
\* started returns a record, returns nothing or fails
ProviderEnds ==
    \/ fetch_kg
    \/ fetch_dbpedia
    \/ fetch_wikidata
    \/ fetch_openlibrary
    \/ get_entity_summary
    \/ get_wikidata_info

\* the calling thread goes on: out of the pool's with-block once every
\* future is done, through the merge of the record, to the return
CodeGoesOn ==
    \/ pc = "par_join" /\ Completed(results) = tasks /\ pc' = "agg_return"
    \/ pc = "agg_return" /\ pc' \in {"enriched", "fallback_wikipedia"}
    \/ pc = "enriched" /\ pc' = "done"

\* the entity pipeline where a provider call that was started ends and the
\* calling thread is not held up
SpecEnrichFair == Spec /\ WF_vars(ProviderEnds) /\ WF_pc(CodeGoesOn)

RateLimit(t) ==
    \/ RateLimitCall(t)
    \/ ReadTime(t)
    \/ ReadLast(t)
    \/ CheckInterval(t)
    \/ WakeUp(t)
    \/ SetLast(t)

\* the rate limiter used by one thread
NextRateLimit ==
    \/ RateLimit("t1")
    \/ Tick

SpecRateLimit == Init /\ [][NextRateLimit]_vars

\* the rate limiter shared by two threads
NextRateLimitThreads ==
    \/ \E t \in Threads : RateLimit(t)
    \/ Tick

SpecRateLimitThreads == Init /\ [][NextRateLimitThreads]_vars

\* get_comprehensive_info(entity_name, entity_type) with parallel left at its
\* default, True
GetComprehensiveInfoParallel ==
    /\ pc = "idle"
    /\ call' = [fn |-> "get_comprehensive_info",
                entity_name |-> Gandhi, entity_type |-> "PERSON", parallel |-> TRUE]
    /\ StartAggregator(Gandhi, "PERSON", TRUE)
    /\ UNCHANGED <<elsewhere, kg_api_key, requested, wire_log, enriched_data,
                   entity_cache, cache_log, ret>>

\* a thread of sequential callers in the rate limiter while another thread
\* runs parallel aggregations of a PERSON (three tasks, no OpenLibrary)
NextLimiterAndFanOut ==
    \/ RateLimit("t1")
    \/ Tick
    \/ GetComprehensiveInfoParallel
    \/ fetch_kg
    \/ fetch_dbpedia
    \/ fetch_wikidata
    \/ ParallelJoin
    \/ ReturnComprehensiveInfo
    \/ Finish

SpecLimiterAndFanOut == Init /\ [][NextLimiterAndFanOut]_vars

----------------------------------------------------------------------------
(* database.py: the analysis_cache table, unique on (text_hash, language),  *)
(* and the analysis path of main.analyze_text up to the cache write         *)

ttl_days == 30
original_text_limit == 5000

\* the clock's step and its last value, in days; the most hits a row has
\* when a new request is accepted
DayStep == 15
MaxDay == 45
MaxHits == 2

lang_en == <<"e","n">>
lang_hi == <<"h","i">>
txt_roman == <<"R","o","m","a","n"," ","r","o","a","d","s">>
txt_roman_spaced == <<" ","r","o","m","a","n"," ","R","O","A","D","S"," ">>

\* requests that pass the length check of analyze_text
AnalyzeInputs ==
    { <<txt_roman, lang_en>>, <<txt_roman_spaced, lang_en>>, <<txt_roman, lang_hi>> }

\* the whitespace of the texts used here
Whitespace == {" ", "\t", "\n", "\r"}

RECURSIVE LStrip(_)
LStrip(s) == IF s # <<>> /\ Head(s) \in Whitespace THEN LStrip(Tail(s)) ELSE s

RECURSIVE RStrip(_)
RStrip(s) ==
    IF s # <<>> /\ s[Len(s)] \in Whitespace
    THEN RStrip(SubSeq(s, 1, Len(s) - 1))
    ELSE s

\* s.strip()
Strip(s) == RStrip(LStrip(s))

\* hashlib.sha256(...).hexdigest(): a digest stands for its preimage
sha256(hash_input) == [sha256 |-> hash_input]

\* a hash of the whole hash_input in lower case
generate_text_hash_folded(text, language) ==
    sha256(Lower(Strip(text) \o <<"|">> \o language))

generate_text_hash(text, language) ==
    LET normalized_text == Lower(Strip(text))
    IN  sha256(normalized_text \o <<"|">> \o language)

\* what gemini_service.analyze_cultural_context may return: the required
\* fields and the defaults it adds are always present
GeminiAnalyses ==
    { [cultural_origin |-> <<"origin:a">>,
       cross_cultural_connections |-> <<"connections:a">>,
       modern_analogy |-> <<"analogy:a">>,
       timeline_events |-> << <<"event:a">> >>,
       geographic_locations |-> << <<"place:a">> >>,
       key_concepts |-> << <<"concept:a">> >>,
       external_resources |-> [wikipedia |-> <<"link:a">>]],
      [cultural_origin |-> <<"origin:b">>,
       cross_cultural_connections |-> <<"connections:b">>,
       modern_analogy |-> <<"analogy:b">>,
       timeline_events |-> <<>>,
       geographic_locations |-> <<>>,
       key_concepts |-> <<>>,
       external_resources |-> <<>>] }

\* .eq('text_hash', text_hash).eq('language', language)
AnalysisRows(cache, text_hash, language) ==
    { r \in cache : r.text_hash = text_hash /\ r.language = language }

\* a query whose cutoff admits a row created exactly ttl_days ago
LiveRowsInclusive(cache, text_hash, language, at) ==
    { r \in AnalysisRows(cache, text_hash, language) : r.created_at >= at - ttl_days }

\* a query whose cutoff is one step of the clock short of ttl_days
LiveRowsShortTTL(cache, text_hash, language, at) ==
    { r \in AnalysisRows(cache, text_hash, language) :
        r.created_at > at - (ttl_days - DayStep) }

\* the query of get_cached_analysis: ....gt('created_at', cutoff_date)
LiveRows(cache, text_hash, language, at) ==
    LET cutoff_date == at - ttl_days
    IN  { r \in AnalysisRows(cache, text_hash, language) : r.created_at > cutoff_date }

\* a dictionary of the three required fields, the others at their defaults
CachedResultRequiredOnly(cached_entry) ==
    [cultural_origin |-> cached_entry.cultural_origin,
     cross_cultural_connections |-> cached_entry.cross_cultural_connections,
     modern_analogy |-> cached_entry.modern_analogy,
     timeline_events |-> <<>>,
     geographic_locations |-> <<>>,
     key_concepts |-> <<>>,
     external_resources |-> <<>>]

\* the dictionary get_cached_analysis builds from cached_entry
CachedResult(cached_entry) ==
    [cultural_origin |-> cached_entry.cultural_origin,
     cross_cultural_connections |-> cached_entry.cross_cultural_connections,
     modern_analogy |-> cached_entry.modern_analogy,
     timeline_events |-> Get(cached_entry, "timeline_events", <<>>),
     geographic_locations |-> Get(cached_entry, "geographic_locations", <<>>),
     key_concepts |-> Get(cached_entry, "key_concepts", <<>>),
     external_resources |-> Get(cached_entry, "external_resources", <<>>)]

\* the SQL function increment_cache_hit(cache_id)
increment_cache_hit(cache, cache_id) ==
    { IF r.id = cache_id THEN [r EXCEPT !.hit_count = @ + 1] ELSE r : r \in cache }

\* cache_data of save_analysis_cache
AnalysisCacheData(text, language, analysis_result, at) ==
    [text_hash |-> generate_text_hash(text, language),
     language |-> language,
     original_text |-> Prefix(text, original_text_limit),
     cultural_origin |-> analysis_result.cultural_origin,
     cross_cultural_connections |-> analysis_result.cross_cultural_connections,
     modern_analogy |-> analysis_result.modern_analogy,
     timeline_events |-> Get(analysis_result, "timeline_events", <<>>),
     geographic_locations |-> Get(analysis_result, "geographic_locations", <<>>),
     key_concepts |-> Get(analysis_result, "key_concepts", <<>>),
     external_resources |-> Get(analysis_result, "external_resources", <<>>),
     hit_count |-> 0,
     created_at |-> at,
     last_accessed |-> at]

\* an insert: the row is added beside the row the key has
UpsertAnalysisInsert(cache, cache_data, next_id) ==
    cache \cup { Put(cache_data, "id", next_id) }

\* an upsert that leaves the counters of the row it finds: hit_count and
\* created_at stay as they were
UpsertAnalysisKeepingCounters(cache, cache_data, next_id) ==
    LET rows == { r \in cache : r.text_hash = cache_data.text_hash
                                 /\ r.language = cache_data.language }
    IN  IF rows = {}
        THEN cache \cup { Put(cache_data, "id", next_id) }
        ELSE (cache \ rows) \cup
               { [Put(cache_data, "id", r.id) EXCEPT !.hit_count = r.hit_count,
                                                     !.created_at = r.created_at]
                   : r \in rows }

\* the upsert on conflict (text_hash, language): the row of the key keeps its
\* id and takes every column of cache_data, a new row gets the next id
UpsertAnalysis(cache, cache_data, next_id) ==
    LET rows == AnalysisRows(cache, cache_data.text_hash, cache_data.language)
    IN  IF rows = {}
        THEN cache \cup { Put(cache_data, "id", next_id) }
        ELSE (cache \ rows) \cup { Put(cache_data, "id", r.id) : r \in rows }

RECURSIVE SumHits(_)
SumHits(rows) ==
    IF rows = {} THEN 0
    ELSE LET r == CHOOSE x \in rows : TRUE
         IN  r.hit_count + SumHits(rows \ {r})

\* the view analysis_cache_stats: one row of aggregates over the table
analysis_cache_stats(cache) ==
    [total_cached_entries |-> Cardinality(cache),
     total_cache_hits |-> SumHits(cache),
     languages_cached |-> Cardinality({ r.language : r \in cache })]

\* round(num / den, 2), in hundredths: the nearest hundredth, the even one
\* of two equally near
Round2(num, den) ==
    LET q == (num * 100) \div den
        r == (num * 100) % den
    IN  IF 2 * r > den \/ (2 * r = den /\ q % 2 = 1) THEN q + 1 ELSE q

\* get_cache_statistics dividing without the test of total_entries: the
\* ZeroDivisionError is caught by its except clause
CacheStatisticsUnguarded(response) ==
    IF response # <<>> /\ response[1].total_cached_entries = 0
    THEN [error |-> "str(e)"]
    ELSE IF response # <<>>
         THEN [total_cached_entries |-> response[1].total_cached_entries,
               total_cache_hits |-> response[1].total_cache_hits,
               languages_cached |-> response[1].languages_cached,
               cache_hit_rate |-> Round2(response[1].total_cache_hits * 100,
                                         response[1].total_cached_entries)]
         ELSE [total_cached_entries |-> 0, total_cache_hits |-> 0,
               languages_cached |-> 0, cache_hit_rate |-> 0]

\* the dictionary get_cache_statistics builds from the response of the view
\* (the counts and cache_hit_rate; the other columns are copied as they are).
\* cache_hit_rate is held in hundredths of a percent
CacheStatistics(response) ==
    IF response # <<>>
    THEN LET stats == response[1]
             total_hits == Get(stats, "total_cache_hits", 0)
             total_entries == Get(stats, "total_cached_entries", 0)
         IN  [total_cached_entries |-> total_entries,
              total_cache_hits |-> total_hits,
              languages_cached |-> Get(stats, "languages_cached", 0),
              cache_hit_rate |->
                 IF total_entries > 0
                 THEN Round2(total_hits * 100, total_entries)
                 ELSE 0]
    ELSE [total_cached_entries |-> 0, total_cache_hits |-> 0,
          languages_cached |-> 0, cache_hit_rate |-> 0]

\* the SQL function cleanup_analysis_cache(): the rows it deletes
ExpiredRows(cache, at) == { r \in cache : r.created_at < at - ttl_days }

\* datetime.utcnow() moves on
TickDay ==
    /\ utcnow < MaxDay
    /\ utcnow' = utcnow + DayStep
    /\ UNCHANGED <<lookup_vars, limiter_vars, worker, analysis_cache, id_seq>>

\* analyze_text(request) with a text that passes the length check
AnalyzeCall(w, text, language) ==
    /\ worker[w].pc \in {"idle", "done"}
    /\ \A r \in analysis_cache : r.hit_count < MaxHits
    /\ worker' = [worker EXCEPT ![w] =
            [pc |-> "query", fn |-> "analyze_text", text |-> text,
             language |-> language, read |-> "", cached_entry |-> NoData,
             rpc |-> "", analysis_result |-> NoData, save |-> "",
             saved |-> NoData, ret |-> NoData]]
    /\ UNCHANGED <<lookup_vars, limiter_vars, analysis_vars>>

\* a query that deletes the rows of the key it finds expired
AnalysisQueryEvicting(w) ==
    /\ worker[w].pc = "query"
    /\ LET text_hash == generate_text_hash(worker[w].text, worker[w].language)
           rows == LiveRows(analysis_cache, text_hash, worker[w].language, utcnow)
       IN  IF rows # {}
           THEN /\ \E cached_entry \in rows :
                     worker' = [worker EXCEPT ![w].pc = "increment",
                                  ![w].read = "ok",
                                  ![w].cached_entry = cached_entry]
                /\ UNCHANGED analysis_cache
           ELSE /\ worker' = [worker EXCEPT ![w].pc = "gemini", ![w].read = "ok"]
                /\ analysis_cache' =
                      analysis_cache \ AnalysisRows(analysis_cache, text_hash,
                                                    worker[w].language)
    /\ UNCHANGED <<lookup_vars, limiter_vars, id_seq, utcnow>>

\* get_cached_analysis: the query.  With a row in the response the function
\* goes on to the hit counter; with none, or when the store raises, it
\* returns None and analyze_text goes to the Gemini call
AnalysisQuery(w) ==
    /\ worker[w].pc = "query"
    /\ \E store \in StoreOutcomes :
         LET rows == LiveRows(analysis_cache,
                              generate_text_hash(worker[w].text, worker[w].language),
                              worker[w].language, utcnow)
         IN  IF store = "ok" /\ rows # {}
             THEN \E cached_entry \in rows :
                    worker' = [worker EXCEPT ![w].pc = "increment",
                                 ![w].read = store,
                                 ![w].cached_entry = cached_entry]
             ELSE worker' = [worker EXCEPT ![w].pc = "gemini", ![w].read = store]
    /\ UNCHANGED <<lookup_vars, limiter_vars, analysis_vars>>

\* get_cached_analysis returning the cached fields without calling
\* increment_cache_hit
AnalysisIncrementSkipped(w) ==
    /\ worker[w].pc = "increment"
    /\ worker' = [worker EXCEPT ![w].pc = "done", ![w].rpc = "ok",
                    ![w].analysis_result = CachedResult(worker[w].cached_entry),
                    ![w].ret = CachedResult(worker[w].cached_entry)]
    /\ UNCHANGED <<lookup_vars, limiter_vars, analysis_vars>>

\* get_cached_analysis without the try/except around the increment_cache_hit
\* call: a failure of the call ends the request
AnalysisIncrementUncaught(w) ==
    /\ worker[w].pc = "increment"
    /\ \E rpc \in StoreOutcomes :
         /\ analysis_cache' =
               IF rpc = "ok"
               THEN increment_cache_hit(analysis_cache, worker[w].cached_entry.id)
               ELSE analysis_cache
         /\ worker' =
               IF rpc = "ok"
               THEN [worker EXCEPT ![w].pc = "done", ![w].rpc = rpc,
                       ![w].analysis_result = CachedResult(worker[w].cached_entry),
                       ![w].ret = CachedResult(worker[w].cached_entry)]
               ELSE [worker EXCEPT ![w].pc = "raised", ![w].rpc = rpc]
    /\ UNCHANGED <<lookup_vars, limiter_vars, id_seq, utcnow>>

\* get_cached_analysis: the increment_cache_hit call, whose failure is
\* passed over, and the return of the cached fields, which analyze_text
\* takes as analysis_result
AnalysisIncrement(w) ==
    /\ worker[w].pc = "increment"
    /\ \E rpc \in StoreOutcomes :
         /\ analysis_cache' =
               IF rpc = "ok"
               THEN increment_cache_hit(analysis_cache, worker[w].cached_entry.id)
               ELSE analysis_cache
         /\ worker' = [worker EXCEPT ![w].pc = "done", ![w].rpc = rpc,
                         ![w].analysis_result = CachedResult(worker[w].cached_entry),
                         ![w].ret = CachedResult(worker[w].cached_entry)]
    /\ UNCHANGED <<lookup_vars, limiter_vars, id_seq, utcnow>>

\* analysis_result = await gemini_service.analyze_cultural_context(...)
AnalyzeLive(w) ==
    /\ worker[w].pc = "gemini"
    /\ \E analysis \in GeminiAnalyses :
         worker' = [worker EXCEPT ![w].pc = "put", ![w].analysis_result = analysis]
    /\ UNCHANGED <<lookup_vars, limiter_vars, analysis_vars>>

\* save_analysis_cache without its try/except: a store failure ends the
\* request
AnalysisPutUncaught(w) ==
    /\ worker[w].pc = "put"
    /\ worker' = [worker EXCEPT ![w].pc = "raised", ![w].save = "raise"]
    /\ UNCHANGED <<lookup_vars, limiter_vars, analysis_vars>>

\* save_analysis_cache(text, language, analysis_result): the upsert, or
\* None when the store raises; analyze_text goes on with analysis_result
AnalysisPut(w) ==
    /\ worker[w].pc = "put"
    /\ \E store \in StoreOutcomes :
         LET cache_data == AnalysisCacheData(worker[w].text, worker[w].language,
                                             worker[w].analysis_result, utcnow)
             rows == AnalysisRows(analysis_cache, cache_data.text_hash,
                                  cache_data.language)
             table == UpsertAnalysis(analysis_cache, cache_data, id_seq + 1)
         IN  /\ analysis_cache' = IF store = "ok" THEN table ELSE analysis_cache
             /\ id_seq' = IF store = "ok" /\ rows = {} THEN id_seq + 1 ELSE id_seq
             /\ worker' = [worker EXCEPT ![w].pc = "done", ![w].save = store,
                   ![w].saved =
                      IF store = "ok"
                      THEN CHOOSE r \in AnalysisRows(table, cache_data.text_hash,
                                                     cache_data.language) : TRUE
                      ELSE NoData,
                   ![w].ret = worker[w].analysis_result]
    /\ UNCHANGED <<lookup_vars, limiter_vars, utcnow>>

\* get_cache_statistics()
GetCacheStatistics(w) ==
    /\ worker[w].pc \in {"idle", "done"}
    /\ \E store \in StoreOutcomes :
         worker' = [worker EXCEPT ![w] =
            [pc |-> "done", fn |-> "get_cache_statistics", read |-> store,
             ret |-> IF store = "ok"
                     THEN CacheStatistics(<<analysis_cache_stats(analysis_cache)>>)
                     ELSE [error |-> "str(e)"]]]
    /\ UNCHANGED <<lookup_vars, limiter_vars, analysis_vars>>

PurgeAges == {7, 30}

\* cleanup_expired_cache(days_old): the rpc takes no argument
CleanupExpiredCache(w) ==
    /\ worker[w].pc \in {"idle", "done"}
    /\ \E days_old \in PurgeAges, store \in StoreOutcomes :
         LET deleted == IF store = "ok" THEN ExpiredRows(analysis_cache, utcnow) ELSE {}
         IN  /\ analysis_cache' = analysis_cache \ deleted
             /\ worker' = [worker EXCEPT ![w] =
                   [pc |-> "done", fn |-> "cleanup_expired_cache",
                    days_old |-> days_old, save |-> store,
                    ret |-> Cardinality(deleted)]]
    /\ UNCHANGED <<lookup_vars, limiter_vars, id_seq, utcnow>>

\* the steps of a call of analyze_text that is under way
AnalyzeStep(w) ==
    \/ AnalysisQuery(w)
    \/ AnalysisIncrement(w)
    \/ AnalyzeLive(w)
    \/ AnalysisPut(w)

\* the analysis cache used by one caller at a time, over 45 days
NextAnalysisCache ==
    \/ \E in \in AnalyzeInputs : AnalyzeCall("w1", in[1], in[2])
    \/ AnalyzeStep("w1")
    \/ GetCacheStatistics("w1")
    \/ CleanupExpiredCache("w1")
    \/ TickDay

\* the cache functions do not read the Knowledge Graph key
InitAnalysisCache == Init /\ kg_api_key = TRUE

SpecAnalysisCache == InitAnalysisCache /\ [][NextAnalysisCache]_vars

\* two concurrent callers of analyze_text within one day
NextAnalysisWorkers ==
    \/ \E w \in Workers, language \in {lang_en, lang_hi} :
          AnalyzeCall(w, txt_roman, language)
    \/ \E w \in Workers : AnalyzeStep(w)

SpecAnalysisWorkers == InitAnalysisCache /\ [][NextAnalysisWorkers]_vars

\* two callers of analyze_text with the same text and language while the
\* sweep runs and the clock moves: w2 either analyzes or calls
\* cleanup_expired_cache
NextAnalysisPurge ==
    \/ AnalyzeCall("w1", txt_roman, lang_en)
    \/ AnalyzeCall("w2", txt_roman, lang_en)
    \/ \E w \in Workers : AnalyzeStep(w)
    \/ CleanupExpiredCache("w2")
    \/ TickDay

SpecAnalysisPurge == InitAnalysisCache /\ [][NextAnalysisPurge]_vars

----------------------------------------------------------------------------
(* database.py: the functions of the analysis cache that compute a value    *)
(* from their arguments or from one response of the store                   *)

lang_EN == <<"E","N">>
txt_roman_lower == <<"r","o","m","a","n"," ","r","o","a","d","s">>
txt_roman_gap == <<"R","o","m","a","n"," "," ","r","o","a","d","s">>
txt_roman_tabbed == <<"\t","R","O","M","A","N"," ","r","o","a","d","s","\r","\n">>

HashTexts ==
    {txt_roman, txt_roman_spaced, txt_roman_lower, txt_roman_gap, txt_roman_tabbed}
HashLanguages == {lang_en, lang_EN, lang_hi}

\* generate_text_hash(text, language) called by worker w
GenerateTextHash(w) ==
    /\ worker[w].pc \in {"idle", "done"}
    /\ \E text \in HashTexts, language \in HashLanguages :
         worker' = [worker EXCEPT ![w] =
            [pc |-> "done", fn |-> "generate_text_hash", text |-> text,
             language |-> language, ret |-> generate_text_hash(text, language)]]
    /\ UNCHANGED <<lookup_vars, limiter_vars, analysis_vars>>

\* the most rows and the most hits in all that the view reports here
MaxEntries == 3
MaxViewHits == 4

\* what the select on analysis_cache_stats may answer: no row, or the
\* aggregates of a table of up to MaxEntries rows
StatsResponses ==
    { <<>> } \cup
    { << [total_cached_entries |-> p[1], total_cache_hits |-> p[2],
          languages_cached |-> IF p[1] = 0 THEN 0 ELSE 1] >> :
        p \in { q \in (0..MaxEntries) \X (0..MaxViewHits) : q[1] = 0 => q[2] = 0 } }

\* get_cache_statistics() called by worker w, on a given answer of the view
GetCacheStatisticsOf(w) ==
    /\ worker[w].pc \in {"idle", "done"}
    /\ \E response \in StatsResponses, store \in StoreOutcomes :
         worker' = [worker EXCEPT ![w] =
            [pc |-> "done", fn |-> "get_cache_statistics", read |-> store,
             response |-> response,
             ret |-> IF store = "ok" THEN CacheStatistics(response)
                     ELSE [error |-> "str(e)"]]]
    /\ UNCHANGED <<lookup_vars, limiter_vars, analysis_vars>>

NextCacheFunctions ==
    \/ \E w \in Workers : GenerateTextHash(w)
    \/ \E w \in Workers : GetCacheStatisticsOf(w)

SpecCacheFunctions == InitAnalysisCache /\ [][NextCacheFunctions]_vars

----------------------------------------------------------------------------
(* NLPEnrichmentService.enrich_entity called by two workers on the shared   *)
(* entity_cache; each store request is one step                             *)

\* what wikipedia_service.enrich_entity may hand back for an entity: the
\* record as first built (nothing found) or one of two filled records
Enrichments(entity_name, entity_type) ==
    LET e == NewEnrichedData(entity_name, entity_type)
    IN  { e,
          Update(e, [summary |-> txt_leader,
                     url |-> <<"kg:url">>,
                     cultural_significance |-> "biographical",
                     source |-> MultiSourceLabel(1),
                     confidence |-> "high",
                     sources_consulted |-> <<"Google Knowledge Graph">>]),
          Update(e, [summary |-> txt_jurist,
                     url |-> <<"wikipedia:url">>,
                     cultural_significance |-> "philosophical",
                     source |-> MultiSourceLabel(2),
                     confidence |-> "high (verified)",
                     sources_consulted |-> <<"DBpedia", "Wikidata">>]) }

EnrichCall(w) ==
    /\ worker[w].pc \in {"idle", "done"}
    /\ \E in \in EnrichInputs :
         worker' = [worker EXCEPT ![w] =
            [pc |-> "get", fn |-> "enrich_entity", entity_name |-> in[1],
             entity_type |-> in[2], read |-> "", enrichment |-> NoData,
             save |-> "", saved |-> NoData, ret |-> NoData]]
    /\ UNCHANGED <<call_vars, entity_cache, limiter_vars, analysis_vars>>

\* cached = get_cached_entity(entity_text, entity_type); a row is returned
EnrichGet(w) ==
    /\ worker[w].pc = "get"
    /\ worker[w].fn = "enrich_entity"
    /\ \E store \in StoreOutcomes :
         \E cached \in get_cached_entity(entity_cache, worker[w].entity_name,
                                         worker[w].entity_type, store) :
            worker' = [worker EXCEPT ![w] =
               IF cached # NoData
               THEN [@ EXCEPT !.pc = "done", !.read = store, !.ret = cached]
               ELSE [@ EXCEPT !.pc = "lookup", !.read = store]]
    /\ UNCHANGED <<call_vars, entity_cache, limiter_vars, analysis_vars>>

\* enrichment = wikipedia_service.enrich_entity(entity_text, entity_type)
EnrichLookup(w) ==
    /\ worker[w].pc = "lookup"
    /\ \E enrichment \in Enrichments(worker[w].entity_name, worker[w].entity_type) :
         worker' = [worker EXCEPT ![w].pc = "save", ![w].enrichment = enrichment]
    /\ UNCHANGED <<call_vars, entity_cache, limiter_vars, analysis_vars>>

\* the save under `if enrichment.get("summary")`, and the return
EnrichSave(w) ==
    /\ worker[w].pc = "save"
    /\ LET enrichment == worker[w].enrichment IN
       IF Truthy(Get(enrichment, "summary", None))
       THEN \E store \in StoreOutcomes :
              /\ entity_cache' =
                    save_entity_cache(entity_cache,
                        CacheData(worker[w].entity_name, worker[w].entity_type,
                                  enrichment), store)
              /\ worker' = [worker EXCEPT ![w].pc = "done", ![w].save = store,
                    ![w].saved =
                       SavedEntity(CacheData(worker[w].entity_name,
                                             worker[w].entity_type, enrichment), store),
                    ![w].ret = enrichment]
       ELSE /\ worker' = [worker EXCEPT ![w].pc = "done", ![w].save = "none",
                                        ![w].ret = enrichment]
            /\ UNCHANGED entity_cache
    /\ UNCHANGED <<call_vars, limiter_vars, analysis_vars>>

Enrich(w) ==
    \/ EnrichCall(w)
    \/ EnrichGet(w)
    \/ EnrichLookup(w)
    \/ EnrichSave(w)

NextEnrichWorkers == \E w \in Workers : Enrich(w)

SpecEnrichWorkers == Init /\ [][NextEnrichWorkers]_vars

\* both caches in use on one day: one caller of enrich_entity, one of
\* analyze_text
NextCaches ==
    \/ Enrich("w1")
    \/ \E text \in {txt_roman, txt_roman_spaced} : AnalyzeCall("w2", text, lang_en)
    \/ AnalyzeStep("w2")

SpecCaches == InitAnalysisCache /\ [][NextCaches]_vars

----------------------------------------------------------------------------
(* Properties of the aggregator: get_comprehensive_info called directly *)

AggregatorReturned == pc = "done" /\ call.fn = "get_comprehensive_info"

\* the name a provider is consulted under
ConsultedAs(source) ==
    CASE source = "kg" -> "Google Knowledge Graph"
      [] source = "dbpedia" -> "DBpedia"
      [] source = "wikidata" -> "Wikidata"
      [] OTHER -> "OpenLibrary"

\* providers whose call returned a record
Responded == { results[i][1] : i \in { j \in 1..Len(results) : results[j][2] # NoData } }

\* the consulted names of a set of providers, in priority order
InPriorityOrder(sources) ==
    LET kept == SelectSeq(SourceKeys, LAMBDA k : k \in sources) IN
    [i \in 1..Len(kept) |-> ConsultedAs(kept[i])]

\* providers the call selects, and those of them it sends a request to
SelectedProviders ==
    {"kg", "dbpedia", "wikidata"}
      \cup (IF WantsOpenLibrary(call.entity_name, call.entity_type)
            THEN {"openlibrary"} ELSE {})

QueriedProviders == SelectedProviders \ (IF kg_api_key THEN {} ELSE {"kg"})

TierAsStated(sc) ==
    CASE Len(sc) = 0 -> "none"
      [] Len(sc) = 1 /\ sc[1] = "Google Knowledge Graph" -> "high"
      [] Len(sc) = 1 /\ sc[1] # "Google Knowledge Graph" -> "medium"
      [] Len(sc) = 2 -> "high (verified)"
      [] OTHER -> "very high (cross-verified)"

TierOfSources(sc) ==
    CASE Len(sc) = 0 -> "none"
      [] Len(sc) = 1 /\ sc[1] \in {"Google Knowledge Graph", "DBpedia"} -> "high"
      [] Len(sc) = 1 /\ sc[1] \in {"Wikidata", "OpenLibrary"} -> "medium"
      [] Len(sc) = 2 -> "high (verified)"
      [] OTHER -> "very high (cross-verified)"

Reorderings(res) ==
    { [i \in 1..Len(res) |-> res[perm[i]]] : perm \in Permutations(1..Len(res)) }

\* C2: in parallel mode the returned record does not depend on the order in
\* which the provider tasks completed: processing the same results in any
\* other order of completion gives the record that was returned.
C2_OrderIndependent ==
    (AggregatorReturned /\ call.parallel) =>
        \A other \in Reorderings(results) :
            ParProcessResults(NewCombinedData(call.entity_name, call.entity_type), other) = ret

\* four tasks, all with data, completed in the reverse of the priority order
C2_ReverseCompletion ==
    /\ AggregatorReturned
    /\ call.parallel
    /\ Len(results) = 4
    /\ \A i \in 1..4 : results[i][1] = SourceKeys[5 - i] /\ results[i][2] # NoData
    /\ Len(ret.sources_consulted) = 4

\* what a provider's record leaves in the combined record
Contributed(source, data, r) ==
    CASE source = "kg" ->
            /\ data.description # <<>> => Get(r, "description", None) = data.description
            /\ data.url # <<>> => Get(r, "url", None) = data.url
            /\ Get(r, "image_url", None) = data.image_url
            /\ Get(r, "kg_confidence_score", -1) = data.confidence
      [] source = "dbpedia" -> Get(r, "dbpedia_uri", None) = data.resource_uri
      [] source = "wikidata" -> Get(r, "wikidata_id", None) = data.wikidata_id
      [] OTHER -> Get(r, "literary_info", NoData) = data

\* C3: in both modes, whichever providers fail, the aggregator returns a
\* record, every selected provider has been called and (Knowledge Graph
\* without a key aside) sent its request, and the providers that returned data
\* are exactly the sources consulted, in priority order, each with its
\* contribution in the record.
C3_FailureIsolation ==
    AggregatorReturned =>
        /\ Completed(results) = SelectedProviders
        /\ requested = QueriedProviders
        /\ ret.sources_consulted = InPriorityOrder(Responded)
        /\ \A i \in 1..Len(results) :
              results[i][2] # NoData => Contributed(results[i][1], results[i][2], ret)

\* sequential mode, DBpedia failed and a later provider still answered
C3_LaterProviderAnswers ==
    /\ AggregatorReturned
    /\ ~call.parallel
    /\ "dbpedia" \in Completed(results) \ Responded
    /\ "wikidata" \in Responded
    /\ InList("Wikidata", ret.sources_consulted)

IsCombinedRecord(r) ==
    {"entity_name", "entity_type", "summary", "description", "url",
     "sources_consulted", "confidence"} \subseteq DOMAIN r

----------------------------------------------------------------------------
(* Properties of enrich: NLPEnrichmentService.enrich_entity *)

EnrichReturned == pc = "done" /\ call.fn = "enrich_entity"

\* the call missed the cache and WikipediaService.enrich_entity ran
LiveLookup == enriched_data # Unset

\* what the provider call `source` returned to this call
Returned(source) ==
    IF \E i \in 1..Len(results) : results[i][1] = source
    THEN results[CHOOSE i \in 1..Len(results) : results[i][1] = source][2]
    ELSE NoData

\* every provider call of this call, the two fallback lookups included, was
\* made and returned nothing
EveryProviderFailed ==
    /\ {"dbpedia", "wikidata", "wikipedia", "wikidata_info"} \subseteq Completed(results)
    /\ \A i \in 1..Len(results) : results[i][2] = NoData

IsEnrichmentRecord(r) ==
    {"entity_name", "entity_type", "summary", "url", "cultural_significance", "source"}
        \subseteq DOMAIN r

\* C4: whatever the providers, the classification, the cache read and the
\* cache write do, enrich returns a record, never an exception; when every
\* provider failed the record is the empty one: no summary, no url, no
\* source, significance "unknown", confidence "low".
C4_NeverPropagates ==
    EnrichReturned =>
        /\ IsEnrichmentRecord(ret)
        /\ (LiveLookup /\ EveryProviderFailed) =>
              ret = NewEnrichedData(call.entity_name, call.entity_type)

\* the cache read failed and so did every provider
C4_EverythingFailed ==
    /\ EnrichReturned
    /\ cache_log = <<"get_error">>
    /\ EveryProviderFailed
    /\ ret.summary = None
    /\ ret.confidence = "low"

\* a step that contacts a provider starts after the cache was read; a
\* successful read of a key that has a row returns that row at once and
\* changes nothing else
C5_Step ==
    /\ requested' # requested =>
          (cache_log # <<>> /\ cache_log[1] \in {"get", "get_error"})
    /\ (pc = "idle" /\ pc' # "idle" /\ cache_log' = <<"get">>
          /\ CacheRows(entity_cache, call'.entity_name, call'.entity_type) # {}) =>
          /\ pc' = "done"
          /\ ret' \in CacheRows(entity_cache, call'.entity_name, call'.entity_type)
          /\ UNCHANGED <<entity_cache, requested, results, combined_data, enriched_data>>
    /\ (pc = "done" /\ ~LiveLookup) =>
          (pc' = "idle" /\ UNCHANGED entity_cache)

C6_Step ==
    /\ (pc = "enriched" /\ pc' = "done") =>
          IF ret'.summary \notin {None, <<>>}
          THEN /\ cache_log' = Append(cache_log, "upsert")
               /\ \/ entity_cache' = entity_cache
                  \/ /\ \E r \in entity_cache' :
                          /\ CacheRows(entity_cache', call.entity_name, call.entity_type) = {r}
                          /\ r.summary = ret'.summary
                     /\ \A r \in entity_cache :
                          (r.entity_name # call.entity_name \/ r.entity_type # call.entity_type)
                              => r \in entity_cache'
          ELSE /\ cache_log' = cache_log
               /\ entity_cache' = entity_cache
    /\ pc # "enriched" => entity_cache' = entity_cache

\* C6: on a miss, enrich writes an entry for (entity_name, entity_type) if
\* and only if the record it returns has a non-empty summary; with an empty
\* or null summary the table is left as it was, so a key that had no entry
\* still has none and the next enrich for it misses again.
C6_WriteIffSummary == [][C6_Step]_vars

\* a live lookup that found a source but no text: nothing was written
C6_NothingWritten ==
    /\ EnrichReturned
    /\ LiveLookup
    /\ ret.sources_consulted # <<>>
    /\ ret.summary = <<>>
    /\ cache_log = <<"get">>
    /\ CacheRows(entity_cache, call.entity_name, call.entity_type) = {}

\* C7: the fallback (Wikipedia, then Wikidata only) runs only when the
\* aggregator's sources_consulted is empty; with at least one source no
\* fallback lookup is made and the returned record is the aggregator's merge.
C7_FallbackOnlyWhenNoSource ==
    (/\ pc \in {"fallback_wikipedia", "fallback_wikidata", "enriched", "done"}
     /\ call.fn = "enrich_entity"
     /\ LiveLookup
     /\ combined_data.sources_consulted # <<>>) =>
        /\ pc \in {"enriched", "done"}
        /\ Completed(results) \cap {"wikipedia", "wikidata_info"} = {}
        /\ enriched_data.sources_consulted = combined_data.sources_consulted
        /\ enriched_data.confidence = combined_data.confidence

\* C8: no record returned by enrich names a source twice in
\* sources_consulted.
C8_NoDuplicateSources ==
    (EnrichReturned /\ LiveLookup) =>
        \A i, j \in 1..Len(ret.sources_consulted) :
            i # j => ret.sources_consulted[i] # ret.sources_consulted[j]

\* C9: for a PERSON in parallel mode, when Knowledge Graph and Wikidata
\* return data and DBpedia fails, the enriched record has sources_consulted
\* Google Knowledge Graph then Wikidata, confidence "high (verified)" and
\* cultural_significance "biographical".
C9_GandhiScenario ==
    (/\ EnrichReturned
     /\ LiveLookup
     /\ call.entity_type = "PERSON"
     /\ call.parallel
     /\ Returned("kg") # NoData
     /\ Returned("wikidata") # NoData
     /\ Returned("dbpedia") = NoData
     /\ Returned("openlibrary") = NoData) =>
        /\ ret.sources_consulted = <<"Google Knowledge Graph", "Wikidata">>
        /\ ret.confidence = "high (verified)"
        /\ ret.cultural_significance = "biographical"

----------------------------------------------------------------------------
(* Properties of the rate limiter *)

\* thread t executes the last statement of _rate_limit in this step
Stamped(t) == thread[t].pc = "set" /\ thread'[t].pc = "done"

\* the step leaves the timestamp of service o as it was
SameStamp(o) ==
    /\ (o \in DOMAIN last_request_time') = (o \in DOMAIN last_request_time)
    /\ o \in DOMAIN last_request_time => last_request_time'[o] = last_request_time[o]

\* thread t's call replaces a timestamp by one at least the interval later
StampedApart(t) ==
    LET s == thread[t].service_name
    IN  s \in DOMAIN last_request_time =>
            last_request_time'[s] - last_request_time[s] >= min_request_interval

\* C11: used by one thread, _rate_limit records timestamps of one service at
\* least min_request_interval (100 ms) apart from one call to the next; a call
\* for one service changes no other service's timestamp, and it is put to
\* sleep only when its own service's timestamp is less than the interval old.
C11_Step ==
    /\ Stamped("t1") =>
          /\ StampedApart("t1")
          /\ \A o \in LimitedServices \ {thread["t1"].service_name} : SameStamp(o)
    /\ ~Stamped("t1") => last_request_time' = last_request_time
    /\ (thread["t1"].pc = "check" /\ thread'["t1"].pc = "sleep") =>
          /\ thread["t1"].service_name \in DOMAIN last_request_time
          /\ thread["t1"].current_time
               - last_request_time[thread["t1"].service_name] < min_request_interval

C11_SequentialThrottle == [][C11_Step]_vars

\* a dbpedia call that had to sleep has returned, while wikidata's timestamp
\* lies between dbpedia's previous and its new one
C11_SecondCallSlept ==
    /\ thread["t1"].pc = "done"
    /\ thread["t1"].service_name = "dbpedia"
    /\ thread["t1"].wake > 0
    /\ thread["t1"].last_time >= StartTime
    /\ "wikidata" \in DOMAIN last_request_time
    /\ last_request_time["wikidata"] > thread["t1"].last_time
    /\ last_request_time["wikidata"] < last_request_time["dbpedia"]

\* C12: with two threads in _rate_limit for the same service, the test and the
\* update of the timestamp are atomic: two calls never pass the interval test
\* against the same old timestamp, so every timestamp a call records is at
\* least min_request_interval after the one it replaces.
C12_Step ==
    \A t \in Threads : Stamped(t) =>
        /\ StampedApart(t)
        /\ \A u \in Threads \ {t} :
              (thread[u].pc = "set"
                  /\ thread[u].service_name = thread[t].service_name)
              => thread[u].last_time # thread[t].last_time

C12_AtomicThrottle == [][C12_Step]_vars

----------------------------------------------------------------------------
(* Properties of the entity cache under two workers *)

\* worker w's upsert is carried out by the store in this step
Upserted(w) ==
    worker[w].pc = "save" /\ worker'[w].pc = "done" /\ worker'[w].save = "ok"

\* the rows of every key but (entity_name, entity_type)
OtherRows(cache, entity_name, entity_type) ==
    cache \ CacheRows(cache, entity_name, entity_type)

\* the row worker w's call writes
RowOf(w) ==
    CacheData(worker[w].entity_name, worker[w].entity_type, worker[w].enrichment)

\* worker w's last call missed the cache and its upsert was carried out
Wrote(w) ==
    /\ worker[w].pc = "done"
    /\ worker[w].fn = "enrich_entity"
    /\ worker[w].save = "ok"

SameKey(w, u) ==
    /\ worker[w].entity_name = worker[u].entity_name
    /\ worker[w].entity_type = worker[u].entity_type

\* C13: every entity-cache write leaves exactly one row for its
\* (entity_name, entity_type), carrying the values of that write, whether or
\* not a row for the key was there before; the rows of other keys stay as
\* they were.  So after two writes for a key the row is the second write's.
C13_Step ==
    \A w \in Workers : Upserted(w) =>
        /\ CacheRows(entity_cache', worker[w].entity_name, worker[w].entity_type)
              = {RowOf(w)}
        /\ OtherRows(entity_cache', worker[w].entity_name, worker[w].entity_type)
              = OtherRows(entity_cache, worker[w].entity_name, worker[w].entity_type)

C13_UpsertLastWins == [][C13_Step]_vars

\* w1 wrote a row, then w2's read failed and w2 wrote different values for
\* the same key; a row of the other key is in the table as well
C13_SecondWrite ==
    /\ Wrote("w1") /\ Wrote("w2") /\ SameKey("w1", "w2")
    /\ worker["w1"].read = "ok"
    /\ worker["w2"].read = "raise"
    /\ RowOf("w1") # RowOf("w2")
    /\ RowOf("w2") \in entity_cache
    /\ Cardinality(entity_cache) = 2

\* C14: when two enrich calls for one key both miss the cache and both write,
\* the table ends with exactly one row for the key, and that row is, field by
\* field, the row of one of the two writes.
C14_OneWriterWins ==
    \A w, u \in Workers :
        (/\ w # u
         /\ Wrote(w) /\ Wrote(u) /\ SameKey(w, u)
         /\ worker[w].read = "ok" /\ worker[u].read = "ok")
        => \/ CacheRows(entity_cache, worker[w].entity_name, worker[w].entity_type)
                = {RowOf(w)}
           \/ CacheRows(entity_cache, worker[w].entity_name, worker[w].entity_type)
                = {RowOf(u)}

\* both calls read successfully, missed, looked up different records and wrote
C14_BothMissedBothWrote ==
    /\ Wrote("w1") /\ Wrote("w2") /\ SameKey("w1", "w2")
    /\ worker["w1"].read = "ok" /\ worker["w2"].read = "ok"
    /\ RowOf("w1").summary # RowOf("w2").summary
    /\ RowOf("w1").source # RowOf("w2").source

----------------------------------------------------------------------------
(* Properties of the two caches when the store fails *)

\* worker w's cache write fails in this step
EntityWriteFails(w) == worker[w].pc = "save" /\ worker'[w].save = "raise"
AnalysisWriteFails(w) == worker[w].pc = "put" /\ worker'[w].save = "raise"

\* C15: when the store fails on a cache write, save_entity_cache and
\* save_analysis_cache return None and raise nothing, no row of either table
\* changes, and the caller ends with the result it had computed.
C15_Step ==
    \A w \in Workers :
        /\ EntityWriteFails(w) =>
              /\ worker'[w].pc = "done"
              /\ worker'[w].saved = NoData
              /\ worker'[w].ret = worker[w].enrichment
              /\ UNCHANGED <<entity_cache, analysis_cache>>
        /\ AnalysisWriteFails(w) =>
              /\ worker'[w].pc = "done"
              /\ worker'[w].saved = NoData
              /\ worker'[w].ret = worker[w].analysis_result
              /\ UNCHANGED <<entity_cache, analysis_cache>>

EntityReadFails(w) == worker[w].pc = "get" /\ worker'[w].read = "raise"
AnalysisReadFails(w) == worker[w].pc = "query" /\ worker'[w].read = "raise"

\* C16: when the store fails on a cache read, get_cached_entity and
\* get_cached_analysis return None and raise nothing, and the caller goes where
\* a miss takes it: enrich_entity to the live lookup, analyze_text to the
\* Gemini call; no row is read, counted or changed.
C16_Step ==
    \A w \in Workers :
        /\ EntityReadFails(w) =>
              /\ worker'[w] = [worker[w] EXCEPT !.pc = "lookup", !.read = "raise"]
              /\ UNCHANGED <<entity_cache, analysis_cache>>
        /\ AnalysisReadFails(w) =>
              /\ worker'[w] = [worker[w] EXCEPT !.pc = "gemini", !.read = "raise"]
              /\ UNCHANGED <<entity_cache, analysis_cache>>

C16_ReadFailureIsMiss == [][C16_Step]_vars

\* both reads failed although each table had the row asked for: each caller
\* ended with a freshly computed result
C16_BothReadsFailed ==
    /\ worker["w1"].pc = "done" /\ worker["w1"].fn = "enrich_entity"
    /\ worker["w1"].read = "raise"
    /\ CacheRows(entity_cache, worker["w1"].entity_name, worker["w1"].entity_type) # {}
    /\ worker["w1"].ret = worker["w1"].enrichment
    /\ worker["w1"].save = "raise"
    /\ worker["w2"].pc = "done" /\ worker["w2"].fn = "analyze_text"
    /\ worker["w2"].read = "raise"
    /\ worker["w2"].ret \in GeminiAnalyses
    /\ worker["w2"].save = "raise"
    /\ \E r \in analysis_cache :
          /\ r.text_hash = generate_text_hash(worker["w2"].text, worker["w2"].language)
          /\ r.cultural_origin # worker["w2"].ret.cultural_origin

----------------------------------------------------------------------------
(* Properties of the analysis cache *)

\* worker w's query is answered by the store in this step
Queried(w) == worker[w].pc = "query" /\ worker'[w].read = "ok"

\* the rows the request of worker w is keyed to
KeyRows(w) ==
    { r \in analysis_cache :
        /\ r.text_hash = generate_text_hash(worker[w].text, worker[w].language)
        /\ r.language = worker[w].language }

\* the row is less than 30 days old
Fresh(r) == utcnow - r.created_at < ttl_days

\* C17: a get_cached_analysis(text, language) that the store answers returns
\* an entry exactly when the table has a row whose text_hash is the hash of
\* (text, language), whose language is language and whose created_at is less
\* than 30 days before the read, and the entry is that row; otherwise it
\* returns None.
C17_Step ==
    \A w \in Workers : Queried(w) =>
        /\ (worker'[w].pc = "increment") = (\E r \in KeyRows(w) : Fresh(r))
        /\ worker'[w].pc = "increment" =>
              /\ worker'[w].cached_entry \in KeyRows(w)
              /\ Fresh(worker'[w].cached_entry)
        /\ worker'[w].pc # "increment" =>
              /\ worker'[w].pc = "gemini"
              /\ worker'[w].cached_entry = NoData

C17_HitIffFreshRow == [][C17_Step]_vars

\* a request with other spacing and case finds, 15 days on, the row another
\* request stored, while the row of the other language is 30 days old
C17_HitAcrossSpelling ==
    /\ worker["w1"].pc = "increment"
    /\ worker["w1"].text = txt_roman_spaced
    /\ worker["w1"].cached_entry.original_text = txt_roman
    /\ utcnow - worker["w1"].cached_entry.created_at = DayStep
    /\ \E r \in analysis_cache :
          r.language = lang_hi /\ utcnow - r.created_at >= ttl_days

\* the query of worker w finds its key's row, and finds it expired
FoundExpired(w) ==
    /\ Queried(w)
    /\ KeyRows(w) # {}
    /\ \A r \in KeyRows(w) : ~Fresh(r)

\* the step is a purge
Purges ==
    \E w \in Workers :
        /\ worker[w].pc \in {"idle", "done"}
        /\ worker'[w].pc = "done" /\ worker'[w].fn = "cleanup_expired_cache"

\* C18: a get_cached_analysis that finds only an expired row returns None and
\* leaves the table as it was: the row stays, its hit_count stays, and the
\* statistics count it; no row leaves the table but by a purge.
C18_Step ==
    /\ \A w \in Workers : FoundExpired(w) =>
          /\ worker'[w].pc = "gemini"
          /\ analysis_cache' = analysis_cache
          /\ analysis_cache_stats(analysis_cache').total_cached_entries
                = Cardinality(analysis_cache)
          /\ analysis_cache_stats(analysis_cache').total_cache_hits
                = analysis_cache_stats(analysis_cache).total_cache_hits
    /\ ~Purges => \A r \in analysis_cache : \E q \in analysis_cache' : q.id = r.id
    /\ \A w \in Workers :
          (worker'[w].pc = "done" /\ worker'[w].fn = "get_cache_statistics"
              /\ worker[w].pc \in {"idle", "done"} /\ worker'[w].read = "ok")
          => worker'[w].ret.total_cached_entries = Cardinality(analysis_cache)

C18_ExpiredRowStays == [][C18_Step]_vars

\* the get found a row of 45 days that had been hit before; it is still there
C18_ExpiredRowRead ==
    /\ worker["w1"].pc = "gemini"
    /\ worker["w1"].read = "ok"
    /\ \E r \in KeyRows("w1") :
          /\ utcnow - r.created_at > ttl_days
          /\ r.hit_count > 0

\* worker w's get returns an entry in this step
ReturnsEntry(w) == worker[w].pc = "increment" /\ worker'[w].pc = "done"

\* the step adds n to the hit_count of the row with this id and changes
\* nothing else in the table
HitsGrow(cache_id, n) ==
    analysis_cache' =
        { IF r.id = cache_id THEN [r EXCEPT !.hit_count = @ + n] ELSE r :
            r \in analysis_cache }

\* C19 as stated: every get that returns an entry adds exactly 1 to that
\* entry's hit_count and to no other, and a get that returns None changes no
\* hit_count.
C19_AsStated ==
    \A w \in Workers :
        /\ ReturnsEntry(w) =>
              /\ \E r \in analysis_cache : r.id = worker[w].cached_entry.id
              /\ HitsGrow(worker[w].cached_entry.id, 1)
        /\ (worker[w].pc = "query" /\ worker'[w].pc = "gemini") =>
              analysis_cache' = analysis_cache

C19_EveryHitCounted == [][C19_AsStated]_vars

\* C19: a get that returns an entry and whose increment_cache_hit call
\* succeeds adds exactly 1 to that entry's hit_count and to no other; when the
\* call fails the entry is returned and no hit_count changes; a get that
\* returns None changes no hit_count.  Every step of two interleaved callers
\* is one of these or a put, so N gets with a successful call add exactly N.
C19_Step ==
    \A w \in Workers :
        /\ (ReturnsEntry(w) /\ worker'[w].rpc = "ok") =>
              /\ \E r \in analysis_cache : r.id = worker[w].cached_entry.id
              /\ HitsGrow(worker[w].cached_entry.id, 1)
        /\ (ReturnsEntry(w) /\ worker'[w].rpc = "raise") =>
              analysis_cache' = analysis_cache
        /\ (worker[w].pc \in {"idle", "done", "query", "gemini"}) =>
              (worker'[w] # worker[w] => analysis_cache' = analysis_cache)

C19_CountedWhenCallSucceeds == [][C19_Step]_vars

\* two gets read the entry at hit_count 0 before either counted; both calls
\* succeeded and the entry stands at 2
C19_TwoInterleavedHits ==
    /\ \A w \in Workers :
          /\ worker[w].pc = "done" /\ worker[w].fn = "analyze_text"
          /\ worker[w].rpc = "ok"
          /\ worker[w].cached_entry # NoData
          /\ worker[w].cached_entry.hit_count = 0
    /\ worker["w1"].cached_entry.id = worker["w2"].cached_entry.id
    /\ \E r \in analysis_cache :
          r.id = worker["w1"].cached_entry.id /\ r.hit_count = 2

\* C20: when the increment_cache_hit call fails, get_cached_analysis still
\* returns the entry, and the seven analysis fields it returns are those of
\* the stored row.
C20_Step ==
    \A w \in Workers :
        (ReturnsEntry(w) /\ worker'[w].rpc = "raise") =>
            \E r \in analysis_cache' :
                /\ r.id = worker[w].cached_entry.id
                /\ worker'[w].ret =
                      [cultural_origin |-> r.cultural_origin,
                       cross_cultural_connections |-> r.cross_cultural_connections,
                       modern_analogy |-> r.modern_analogy,
                       timeline_events |-> r.timeline_events,
                       geographic_locations |-> r.geographic_locations,
                       key_concepts |-> r.key_concepts,
                       external_resources |-> r.external_resources]

C20_IncrementFailureHarmless == [][C20_Step]_vars

\* the call failed on an entry with timeline, places, concepts and resources;
\* the caller holds them and the entry's hit_count is still 0
C20_ReturnedAfterFailedCount ==
    /\ worker["w1"].pc = "done" /\ worker["w1"].fn = "analyze_text"
    /\ worker["w1"].rpc = "raise"
    /\ worker["w1"].ret.timeline_events # <<>>
    /\ worker["w1"].ret.external_resources # <<>>
    /\ \E r \in analysis_cache :
          /\ r.id = worker["w1"].cached_entry.id
          /\ r.hit_count = 0
          /\ r.key_concepts = worker["w1"].ret.key_concepts

----------------------------------------------------------------------------
(* Properties of the analysis cache under two callers and the sweep *)

\* no two rows of the table have the same text_hash and language
UniqueKeys(cache) ==
    \A r, s \in cache :
        (r.text_hash = s.text_hash /\ r.language = s.language) => r = s

\* the save_analysis_cache of worker w is carried out in this step
Puts(w) == worker[w].pc = "put" /\ worker'[w].save = "ok"

\* C21: in every interleaving of get_cached_analysis, save_analysis_cache and
\* cleanup_expired_cache calls the table holds at most one row per
\* (text_hash, language), and a save for a pair that has a row replaces that
\* row (same row count, the columns of the new cache_data) instead of adding
\* a second one.
C21_Step ==
    /\ UniqueKeys(analysis_cache')
    /\ \A w \in Workers : Puts(w) =>
          LET text_hash == generate_text_hash(worker[w].text, worker[w].language)
              before == AnalysisRows(analysis_cache, text_hash, worker[w].language)
              after == AnalysisRows(analysis_cache', text_hash, worker[w].language)
          IN  /\ Cardinality(after) = 1
              /\ \A r \in after :
                    /\ r.original_text = worker[w].text
                    /\ r.cultural_origin = worker[w].analysis_result.cultural_origin
                    /\ r.modern_analogy = worker[w].analysis_result.modern_analogy
                    /\ r.hit_count = 0
                    /\ r.created_at = utcnow
              /\ before # {} =>
                    Cardinality(analysis_cache') = Cardinality(analysis_cache)
              /\ analysis_cache' \ after = analysis_cache \ before

C21_OneRowPerKey == [][C21_Step]_vars

\* both callers missed and both saved, with different analyses: the second
\* save took the row of the first
C21_SecondPutReplaced ==
    /\ \A w \in Workers :
          /\ worker[w].pc = "done" /\ worker[w].fn = "analyze_text"
          /\ worker[w].read = "ok"
          /\ worker[w].cached_entry = NoData
          /\ worker[w].save = "ok"
    /\ worker["w1"].saved.id = worker["w2"].saved.id
    /\ worker["w1"].saved.cultural_origin # worker["w2"].saved.cultural_origin
    /\ Cardinality(analysis_cache) = 1

\* a cleanup_expired_cache call of worker w is carried out in this step
Purged(w) ==
    /\ worker[w].pc \in {"idle", "done"}
    /\ worker'[w].pc = "done" /\ worker'[w].fn = "cleanup_expired_cache"
    /\ worker'[w].save = "ok"
    /\ <<worker, analysis_cache>>' # <<worker, analysis_cache>>

\* the rows created more than days before at
OlderThan(cache, at, days) == { r \in cache : at - r.created_at > days }

\* C22: cleanup_expired_cache(days_old) removes exactly the rows whose
\* created_at is more than days_old days old, leaves the younger rows as
\* they are and returns the number of rows removed, by which the
\* total_cached_entries of the statistics goes down; for every days_old.
C22_Step ==
    \A w \in Workers : Purged(w) =>
        LET old == OlderThan(analysis_cache, utcnow, worker'[w].days_old)
        IN  /\ analysis_cache' = analysis_cache \ old
            /\ worker'[w].ret = Cardinality(old)
            /\ analysis_cache_stats(analysis_cache').total_cached_entries
                  = analysis_cache_stats(analysis_cache).total_cached_entries
                      - worker'[w].ret

C22_PurgeByAge == [][C22_Step]_vars

\* the columns of a row of analysis_cache
AnalysisColumns ==
    {"id", "text_hash", "language", "original_text", "cultural_origin",
     "cross_cultural_connections", "modern_analogy", "timeline_events",
     "geographic_locations", "key_concepts", "external_resources", "hit_count",
     "created_at", "last_accessed"}

\* the seven analysis fields of r are those of one analysis
OneAnalysis(r) ==
    \E a \in GeminiAnalyses : \A f \in DOMAIN a : r[f] = a[f]

\* r has every column, and its analysis is whole
CompleteRow(r) ==
    /\ DOMAIN r = AnalysisColumns
    /\ OneAnalysis(r)
    /\ r.text_hash = generate_text_hash(r.original_text, r.language)
    /\ r.hit_count >= 0
    /\ r.created_at >= 0 /\ r.last_accessed = r.created_at

\* worker w has read a row and not yet counted the hit, and the row is gone
RowGone(w) ==
    /\ worker[w].pc = "increment"
    /\ \A r \in analysis_cache : r.id # worker[w].cached_entry.id

\* C23: with cleanup_expired_cache running beside get_cached_analysis and
\* save_analysis_cache calls, every get ends with a whole entry or with None
\* and never raises, every save leaves a whole row or changes nothing, and
\* every row of the table is whole after every step; a get whose row the
\* sweep deleted between its read and its increment_cache_hit call returns
\* the entry it read and leaves the table as it is.
C23_Step ==
    /\ \A r \in analysis_cache' : CompleteRow(r)
    /\ \A w \in Workers :
          /\ worker'[w].pc # "raised"
          /\ (worker[w].pc = "query" /\ worker'[w].pc # "query") =>
                \/ worker'[w].pc = "gemini" /\ worker'[w].cached_entry = NoData
                \/ /\ worker'[w].pc = "increment"
                   /\ worker'[w].cached_entry \in analysis_cache
          /\ (worker[w].pc = "increment" /\ worker'[w].pc # "increment") =>
                /\ worker'[w].pc = "done"
                /\ worker'[w].ret \in GeminiAnalyses
                /\ worker'[w].ret = CachedResult(worker[w].cached_entry)
          /\ (RowGone(w) /\ worker'[w].pc # "increment") =>
                analysis_cache' = analysis_cache
          /\ (worker[w].pc = "put" /\ worker'[w].pc # "put") =>
                /\ worker'[w].pc = "done"
                /\ worker'[w].ret \in GeminiAnalyses
                /\ IF worker'[w].save = "ok"
                   THEN /\ worker'[w].saved \in analysis_cache'
                        /\ OneAnalysis(worker'[w].saved)
                        /\ worker'[w].saved.cultural_origin = worker'[w].ret.cultural_origin
                   ELSE analysis_cache' = analysis_cache

C23_SweepSafe == [][C23_Step]_vars

\* w1 has read the row, the clock went on and the sweep of w2 deleted that
\* row before w1 counted the hit
C23_PurgedUnderGet ==
    /\ RowGone("w1")
    /\ worker["w2"].pc = "done" /\ worker["w2"].fn = "cleanup_expired_cache"
    /\ worker["w2"].save = "ok" /\ worker["w2"].ret = 1
    /\ analysis_cache = {}

----------------------------------------------------------------------------
(* Properties of the functions of the analysis cache *)

\* c and d are one character, or the two cases of one letter
SameLetter(c, d) ==
    c = d \/ \E i \in DOMAIN UpperCase : {c, d} = {UpperCase[i], LowerCase[i]}

\* the positions of t that hold something other than whitespace
Inked(t) == { i \in 1..Len(t) : t[i] \notin Whitespace }

\* t from its first to its last character that is not whitespace
Core(t) ==
    IF Inked(t) = {} THEN <<>>
    ELSE SubSeq(t, CHOOSE i \in Inked(t) : \A j \in Inked(t) : i <= j,
                   CHOOSE i \in Inked(t) : \A j \in Inked(t) : i >= j)

\* t1 and t2 differ at most in leading and trailing whitespace and in the
\* case of their letters
SameButMarginAndCase(t1, t2) ==
    /\ Len(Core(t1)) = Len(Core(t2))
    /\ \A i \in 1..Len(Core(t1)) : SameLetter(Core(t1)[i], Core(t2)[i])

\* worker w holds the value of a generate_text_hash call
Hashed(w) == worker[w].pc = "done" /\ worker[w].fn = "generate_text_hash"

\* C24: generate_text_hash gives two calls the same hash whenever their
\* languages are the same string and their texts differ only in leading and
\* trailing whitespace and letter case (so also for the same text and
\* language); the same text with two different language strings, "en" and
\* "EN" included, gets different hashes, and so different cache keys.
C24_HashDomain ==
    \A w, u \in Workers : (Hashed(w) /\ Hashed(u)) =>
        /\ (worker[w].language = worker[u].language
              /\ SameButMarginAndCase(worker[w].text, worker[u].text))
              => worker[w].ret = worker[u].ret
        /\ (worker[w].language # worker[u].language
              /\ SameButMarginAndCase(worker[w].text, worker[u].text))
              => /\ worker[w].ret # worker[u].ret
                 /\ <<worker[w].ret, worker[w].language>>
                       # <<worker[u].ret, worker[u].language>>

\* one text, spelled with other case and margins, hashed with "en" and "EN"
C24_LanguageCaseKept ==
    /\ Hashed("w1") /\ Hashed("w2")
    /\ worker["w1"].text = txt_roman_tabbed /\ worker["w1"].language = lang_en
    /\ worker["w2"].text = txt_roman_lower /\ worker["w2"].language = lang_EN
    /\ worker["w1"].ret # worker["w2"].ret

\* worker u analyzed the text and language of worker w before, saved its
\* result, and the row it saved is the row of the key, less than 30 days old
FirstCached(u, w) ==
    /\ worker[u].pc = "done" /\ worker[u].fn = "analyze_text"
    /\ worker[u].text = worker[w].text /\ worker[u].language = worker[w].language
    /\ worker[u].save = "ok"
    /\ \E r \in KeyRows(w) :
          /\ r.id = worker[u].saved.id
          /\ r.created_at = worker[u].saved.created_at
          /\ CachedResult(r) = worker[u].ret
          /\ Fresh(r)

\* worker w holds the row that worker u saved
HoldsRowOf(w, u) ==
    /\ worker[u].pc = "done" /\ worker[u].fn = "analyze_text"
    /\ worker[u].save = "ok"
    /\ worker[w].cached_entry.id = worker[u].saved.id
    /\ worker[w].cached_entry.created_at = worker[u].saved.created_at
    /\ CachedResult(worker[w].cached_entry) = worker[u].ret

\* the second analysis of a cached (text, language) never calls Gemini and
\* always counts a hit
C25_AsStated ==
    \A w, u \in Workers :
        /\ (worker[w].pc = "query" /\ worker'[w].pc # "query" /\ FirstCached(u, w))
              => worker'[w].pc = "increment"
        /\ (worker[w].pc = "increment" /\ worker'[w].pc = "done" /\ HoldsRowOf(w, u))
              => HitsGrow(worker[w].cached_entry.id, 1)

C25_SecondAlwaysFromCache == [][C25_AsStated]_vars

\* C25: when a (text, language) whose analysis was saved less than 30 days
\* ago is analyzed again and the cache read succeeds, analyze_text takes the
\* saved row instead of calling Gemini, its cultural_origin and
\* modern_analogy are those of the first analysis, and the row's hit_count
\* goes up by one when the increment_cache_hit call succeeds.
C25_Step ==
    \A w, u \in Workers :
        /\ (worker[w].pc = "query" /\ worker'[w].pc # "query"
               /\ worker'[w].read = "ok" /\ FirstCached(u, w))
              => /\ worker'[w].pc = "increment"
                 /\ HoldsRowOf(w, u)'
        /\ (worker[w].pc = "increment" /\ worker'[w].pc = "done" /\ HoldsRowOf(w, u))
              => /\ worker'[w].analysis_result.cultural_origin
                       = worker[u].ret.cultural_origin
                 /\ worker'[w].analysis_result.modern_analogy
                       = worker[u].ret.modern_analogy
                 /\ worker'[w].ret = worker'[w].analysis_result
                 /\ (worker'[w].rpc = "ok" /\ ~RowGone(w))
                       => HitsGrow(worker[w].cached_entry.id, 1)

C25_SecondFromCache == [][C25_Step]_vars

\* w1 analyzed and saved; 15 days later w2 analyzed the same text and
\* language, was served the saved row and counted the hit
C25_ServedAgain ==
    /\ worker["w2"].pc = "done" /\ worker["w2"].fn = "analyze_text"
    /\ worker["w2"].read = "ok" /\ worker["w2"].rpc = "ok"
    /\ HoldsRowOf("w2", "w1")
    /\ worker["w2"].ret = worker["w1"].ret
    /\ worker["w2"].cached_entry.hit_count = 0
    /\ utcnow - worker["w1"].saved.created_at = DayStep
    /\ \E r \in analysis_cache :
          r.id = worker["w1"].saved.id /\ r.hit_count = 1

\* worker w holds the value of a get_cache_statistics call that the store
\* answered
StatsAnswered(w) ==
    /\ worker[w].pc = "done" /\ worker[w].fn = "get_cache_statistics"
    /\ "response" \in DOMAIN worker[w]
    /\ worker[w].read = "ok"

\* the view answered with a row that counts at least one entry
CountsEntries(response) == response # <<>> /\ response[1].total_cached_entries > 0

\* the hit rate is total_hits / total_entries * 100 to the last digit
C26_AsStated ==
    \A w \in Workers : StatsAnswered(w) =>
        /\ "cache_hit_rate" \in DOMAIN worker[w].ret
        /\ IF CountsEntries(worker[w].response)
           THEN worker[w].ret.cache_hit_rate * worker[w].response[1].total_cached_entries
                   = worker[w].response[1].total_cache_hits * 100 * 100
           ELSE worker[w].ret.cache_hit_rate = 0

\* C26: get_cache_statistics never divides by zero: with no row from the
\* view, or a row whose total_cached_entries is 0, cache_hit_rate is 0;
\* otherwise it is total_cache_hits / total_cached_entries * 100 rounded to
\* two decimals (here in hundredths: within half a hundredth of the quotient).
C26_HitRate ==
    \A w \in Workers : StatsAnswered(w) =>
        /\ "cache_hit_rate" \in DOMAIN worker[w].ret
        /\ IF CountsEntries(worker[w].response)
           THEN LET n == worker[w].response[1].total_cached_entries
                    exact == worker[w].response[1].total_cache_hits * 100 * 100
                    got == worker[w].ret.cache_hit_rate * n
                IN  /\ 2 * (got - exact) <= n
                    /\ 2 * (exact - got) <= n
           ELSE worker[w].ret.cache_hit_rate = 0

\* one call on an empty table, one on three entries with one hit in all
C26_EmptyAndThirds ==
    /\ StatsAnswered("w1") /\ StatsAnswered("w2")
    /\ worker["w1"].response # <<>>
    /\ worker["w1"].response[1].total_cached_entries = 0
    /\ worker["w1"].ret.cache_hit_rate = 0
    /\ worker["w2"].response # <<>>
    /\ worker["w2"].response[1].total_cached_entries = MaxEntries
    /\ worker["w2"].response[1].total_cache_hits = 1
    /\ worker["w2"].ret.cache_hit_rate * MaxEntries # 100 * 100

----------------------------------------------------------------------------
(* Properties of the aggregator: the join and the merge *)

\* the parallel version leaves its `with ThreadPoolExecutor` block
LeavesJoin == pc = "par_join" /\ pc' # "par_join"

\* an enrich call is under way
EnrichUnderWay == pc \notin {"idle", "done"} /\ call.fn = "enrich_entity"

\* C27: with every provider call ending (a record, nothing, or a failure at
\* its timeout), the parallel aggregator goes on to the merge only after
\* every submitted task has completed, and every enrich call that has
\* started returns, however many providers fail.
C27_JoinsAndReturns ==
    /\ [][LeavesJoin => Completed(results) = tasks]_vars
    /\ EnrichUnderWay ~> EnrichReturned

\* enrich returned after all four submitted tasks, the Knowledge Graph one
\* last, and the two fallback lookups had ended without a record
C27_ReturnedAfterAllFailed ==
    /\ EnrichReturned
    /\ tasks = {"kg", "dbpedia", "wikidata", "openlibrary"}
    /\ Len(results) = Cardinality(tasks) + 2
    /\ results[Cardinality(tasks)][1] = "kg"
    /\ \A i \in 1..Len(results) : results[i][2] = NoData

\* the place of a consulted name in the priority order
Priority(name) ==
    CHOOSE i \in 1..Len(SourceKeys) : ConsultedAs(SourceKeys[i]) = name

\* C28: in both modes the sources_consulted of the record the aggregator
\* returns names a provider exactly when that provider was selected and its
\* call returned a record, and the names stand in the order Google Knowledge
\* Graph, DBpedia, Wikidata, OpenLibrary, each once.
C28_ConsultedAreResponders ==
    AggregatorReturned =>
        LET sc == ret.sources_consulted IN
        /\ \A i \in 1..Len(SourceKeys) :
              InList(ConsultedAs(SourceKeys[i]), sc)
                <=> /\ SourceKeys[i] \in SelectedProviders
                    /\ Returned(SourceKeys[i]) # NoData
        /\ \A i \in 1..Len(sc) :
              \E k \in 1..Len(SourceKeys) : sc[i] = ConsultedAs(SourceKeys[k])
        /\ \A i, j \in 1..Len(sc) : i < j => Priority(sc[i]) < Priority(sc[j])

\* parallel mode: OpenLibrary completed first and DBpedia last, both with a
\* record, the Knowledge Graph and Wikidata with none
C28_TwoOfFour ==
    /\ AggregatorReturned
    /\ call.parallel
    /\ Len(results) = 4
    /\ results[1][1] = "openlibrary" /\ results[4][1] = "dbpedia"
    /\ Returned("kg") = NoData /\ Returned("wikidata") = NoData
    /\ ret.sources_consulted = <<"DBpedia", "OpenLibrary">>

\* the first value of a list that is not empty, None when all are
FirstFilled(values) ==
    IF \E i \in 1..Len(values) : Truthy(values[i])
    THEN values[CHOOSE i \in 1..Len(values) :
                    /\ Truthy(values[i])
                    /\ \A j \in 1..(i - 1) : ~Truthy(values[j])]
    ELSE None

\* the long-form texts and the short descriptions the providers returned
\* to this call, in priority order (nothing for a provider without record)
LongForms ==
    << Get(Returned("kg"), "detailed_description", <<>>),
       Get(Returned("dbpedia"), "abstract", <<>>) >>

ShortForms ==
    << Get(Returned("kg"), "description", <<>>),
       Get(Returned("wikidata"), "description", <<>>) >>

\* C29: the summary of the record the aggregator returns is the first
\* non-empty long-form text in priority order (Knowledge Graph detailed
\* description, then DBpedia abstract); only when no provider returned one is
\* it the first non-empty short description (Knowledge Graph description,
\* then Wikidata description); so it is non-empty whenever a provider
\* returned a non-empty long-form text or description.
C29_SummaryByPriority ==
    (AggregatorReturned /\ Responded # {}) =>
        /\ Truthy(FirstFilled(LongForms)) => ret.summary = FirstFilled(LongForms)
        /\ (~Truthy(FirstFilled(LongForms)) /\ Truthy(FirstFilled(ShortForms)))
              => ret.summary = FirstFilled(ShortForms)

\* the descriptive texts, the urls and the image the providers returned to
\* this call, in priority order.  DBpedia's only text is its abstract
Descriptions ==
    << Get(Returned("kg"), "description", <<>>),
       Get(Returned("dbpedia"), "abstract", <<>>),
       Get(Returned("wikidata"), "description", <<>>) >>

Urls ==
    << Get(Returned("kg"), "url", <<>>),
       Get(Returned("wikidata"), "wikipedia_url", <<>>) >>

\* C30: description, url and image_url of the record the aggregator returns
\* are each the first non-empty value the responding providers offer, in
\* priority order, a later provider filling what an earlier one left empty;
\* with only DBpedia and OpenLibrary responding the description is DBpedia's.
C30_GapFilling ==
    AggregatorReturned =>
        /\ Truthy(FirstFilled(Descriptions))
              => Get(ret, "description", None) = FirstFilled(Descriptions)
        /\ Truthy(FirstFilled(Urls)) => Get(ret, "url", None) = FirstFilled(Urls)
        /\ Truthy(Get(Returned("kg"), "image_url", <<>>))
              => Get(ret, "image_url", None) = Returned("kg").image_url

----------------------------------------------------------------------------
(* Properties of the provider selection *)

AggregatorCall == call # Unset /\ call.fn = "get_comprehensive_info"

\* the name, in lower case, has "book", "novel" or "play" somewhere in it
LiteraryName(entity_name) ==
    \E k \in {kw_book, kw_novel, kw_play} :
       \E i \in 1..Len(entity_name) :
          /\ i + Len(k) - 1 <= Len(entity_name)
          /\ \A j \in 1..Len(k) : LowerChar(entity_name[i + j - 1]) = k[j]

Literary == call.entity_type = "WORK_OF_ART" \/ LiteraryName(call.entity_name)

\* C31: in both modes OpenLibrary is queried if and only if entity_type is
\* WORK_OF_ART or the lower-cased entity name contains "book", "novel" or
\* "play"; otherwise it is never queried and never in sources_consulted, and
\* Knowledge Graph, DBpedia and Wikidata are called in every aggregation.
C31_OpenLibraryIffLiterary ==
    AggregatorCall =>
        /\ "openlibrary" \in requested \cup Completed(results) => Literary
        /\ ~Literary => ~InList("OpenLibrary", combined_data.sources_consulted)
        /\ AggregatorReturned =>
              /\ Literary => "openlibrary" \in requested
              /\ {"kg", "dbpedia", "wikidata"} \subseteq Completed(results)
              /\ {"dbpedia", "wikidata"} \subseteq requested

\* a PERSON whose name is "Play" was looked up in OpenLibrary, which answered
C31_PlayByNameOnly ==
    /\ AggregatorReturned
    /\ call.entity_type = "PERSON"
    /\ call.entity_name = PlayName
    /\ "openlibrary" \in requested
    /\ InList("OpenLibrary", ret.sources_consulted)

----------------------------------------------------------------------------
(* Properties of the sequential version on the wire *)

\* the place of a service name in the order Knowledge Graph, DBpedia,
\* Wikidata, OpenLibrary
Rank(service) ==
    CASE service = "knowledge_graph" -> 1
      [] service = "dbpedia" -> 2
      [] service = "wikidata" -> 3
      [] OTHER -> 4

\* the providers are reached in priority order
WireInOrder ==
    \A i, j \in 1..Len(wire_log) :
       i < j => Rank(wire_log[i].service) <= Rank(wire_log[j].service)

\* the event just before request i is a throttle call for the same service
ThrottledJustBefore(i) ==
    /\ i > 1
    /\ wire_log[i - 1] = [op |-> "throttle", service |-> wire_log[i].service]

\* C32: in sequential mode the provider calls are issued one at a time in the
\* order Knowledge Graph, DBpedia, Wikidata, OpenLibrary, and every HTTP
\* request to a provider is immediately preceded by a throttle call for that
\* provider's service name.
C32_ThrottleBeforeEveryRequest ==
    /\ WireInOrder
    /\ \A i \in 1..Len(wire_log) : wire_log[i].op = "get" => ThrottledJustBefore(i)

----------------------------------------------------------------------------
(* Properties of the parallel version next to the rate limiter *)

\* the aggregation in progress is a parallel one and this step is its own
ParallelMoves ==
    /\ call # Unset /\ call.parallel
    /\ <<pc, results, combined_data, requested, ret>>'
          # <<pc, results, combined_data, requested, ret>>

\* every provider call that is still out can end now
CanGoOn ==
    /\ Pending("kg") => ENABLED fetch_kg
    /\ Pending("dbpedia") => ENABLED fetch_dbpedia
    /\ Pending("wikidata") => ENABLED fetch_wikidata

\* C33: a parallel aggregation never waits on the rate limiter and leaves
\* last_request_time unchanged for every service: none of its steps depends
\* on or changes what a sequential caller reads and writes there.
C33_Step ==
    /\ ParallelMoves =>
          /\ last_request_time' = last_request_time
          /\ thread' = thread
          /\ wire_log' = wire_log
    /\ CanGoOn

C33_ParallelBypassesLimiter == [][C33_Step]_vars

\* a parallel aggregation has returned with DBpedia's record while a
\* sequential caller sleeps in _rate_limit("dbpedia"), the map as that caller
\* read it
C33_ReturnedWhileOtherSleeps ==
    /\ AggregatorReturned
    /\ InList("DBpedia", ret.sources_consulted)
    /\ thread["t1"].pc = "sleep"
    /\ thread["t1"].service_name = "dbpedia"
    /\ now < thread["t1"].wake
    /\ LastRequestTime("dbpedia") = thread["t1"].last_time

----------------------------------------------------------------------------
(* Properties of the classification of a multi-source record *)

\* enrich returned the aggregator's record, classified: no fallback lookup ran
ReturnedMultiSource ==
    /\ EnrichReturned
    /\ LiveLookup
    /\ Responded # {}
    /\ Completed(results) \cap {"wikipedia", "wikidata_info"} = {}

\* the type tags of the Knowledge Graph record of this call, lower-cased
TypeTags ==
    IF Returned("kg") # NoData THEN Lower(Join(Returned("kg").types)) ELSE <<>>

\* the order of precedence: literary data, then the type tags, then the
\* keywords of the merged texts, then the entity type, then "general"
SignificanceByPrecedence ==
    IF Returned("openlibrary") # NoData THEN "literary"
    ELSE IF Contains(kw_book, TypeTags) \/ Contains(kw_creativework, TypeTags) THEN "literary"
    ELSE IF Contains(kw_person, TypeTags) THEN "biographical"
    ELSE IF Contains(kw_place, TypeTags) THEN "geographical"
    ELSE IF Contains(kw_event, TypeTags) THEN "historical"
    ELSE ClassifyByDescription(call.entity_type, combined_data).value

\* C34: cultural_significance of a multi-source record is "literary" when
\* there is literary data; else it follows the type tags of the responding
\* Knowledge Graph record (book/creativework literary, person biographical,
\* place geographical, event historical); else the keywords of the merged
\* description and summary; else the entity type; else "general".  With a
\* Knowledge Graph record tagged Person and no literary data it is
\* "biographical".
C34_SignificancePrecedence ==
    ReturnedMultiSource => ret.cultural_significance = SignificanceByPrecedence

----------------------------------------------------------------------------
(* Properties of the fallback path of WikipediaService.enrich_entity *)

\* enrich returned after its fallback path ran
ReturnedAfterFallback ==
    /\ EnrichReturned
    /\ LiveLookup
    /\ "wikipedia" \in Completed(results)

\* the steps of the fallback in their order, each only after the one before
\* it found nothing
FallbackInOrder ==
    /\ "wikipedia_search" \in requested => "wikipedia" \in requested
    /\ "wikidata_info" \in Completed(results) <=> Returned("wikipedia") = NoData
    /\ "wikidata_search" \in requested <=> Returned("wikipedia") = NoData

\* the record by the step that answered
FallbackRecord ==
    IF Returned("wikipedia") # NoData
    THEN /\ ret.confidence = "medium (Wikipedia only)"
         /\ ret.sources_consulted = <<"Wikipedia">>
    ELSE IF Returned("wikidata_info") # NoData
    THEN /\ ret.confidence = "low (Wikidata only)"
         /\ ret.sources_consulted = <<"Wikidata">>
    ELSE /\ ret.confidence = "low"
         /\ ret.sources_consulted = <<>>
         /\ ret.summary = None

\* C35: the fallback path tries the exact-name Wikipedia lookup, then, only
\* if the page does not exist, the search and its first hit, then, only if
\* Wikipedia yields nothing, the Wikidata-only lookup; the record returned is
\* "medium (Wikipedia only)" with sources_consulted [Wikipedia], or
\* "low (Wikidata only)" with [Wikidata], or empty with confidence "low".
C35_FallbackOrderAndRecord ==
    ReturnedAfterFallback => (FallbackInOrder /\ FallbackRecord)

----------------------------------------------------------------------------
(* Properties of a save over an entry the key already has *)

\* the columns of row r that hold the analysis are those of analysis_result
HoldsAnalysis(r, analysis_result) ==
    /\ r.cultural_origin = analysis_result.cultural_origin
    /\ r.cross_cultural_connections = analysis_result.cross_cultural_connections
    /\ r.modern_analogy = analysis_result.modern_analogy
    /\ r.timeline_events = Get(analysis_result, "timeline_events", <<>>)
    /\ r.geographic_locations = Get(analysis_result, "geographic_locations", <<>>)
    /\ r.key_concepts = Get(analysis_result, "key_concepts", <<>>)
    /\ r.external_resources = Get(analysis_result, "external_resources", <<>>)

TotalHits(cache) == analysis_cache_stats(cache).total_cache_hits

\* C36: a save for a (text, language) that already has an entry overwrites
\* the analysis fields with the new result and resets hit_count to 0 and
\* created_at and last_accessed to the time of the write: the entry is within
\* its 30 days again and the hits it had counted are gone from the statistics.
C36_Step ==
    \A w \in Workers : Puts(w) =>
        LET text_hash == generate_text_hash(worker[w].text, worker[w].language)
            before == AnalysisRows(analysis_cache, text_hash, worker[w].language)
            after == AnalysisRows(analysis_cache', text_hash, worker[w].language)
        IN  \A old \in before :
               /\ Cardinality(after) = 1
               /\ \A new \in after :
                     /\ new.id = old.id
                     /\ HoldsAnalysis(new, worker[w].analysis_result)
                     /\ new.hit_count = 0
                     /\ new.created_at = utcnow
                     /\ new.last_accessed = utcnow
                     /\ utcnow - new.created_at < ttl_days
               /\ TotalHits(analysis_cache') = TotalHits(analysis_cache) - old.hit_count

C36_PutResetsEntry == [][C36_Step]_vars

\* w2 was served the entry and counted a hit; later w1, which had missed,
\* saved another analysis over that entry: same id, a later created_at, no hit
C36_CountedHitDropped ==
    /\ worker["w2"].pc = "done" /\ worker["w2"].fn = "analyze_text"
    /\ worker["w2"].cached_entry # NoData
    /\ worker["w2"].rpc = "ok"
    /\ worker["w1"].pc = "done" /\ worker["w1"].fn = "analyze_text"
    /\ worker["w1"].save = "ok"
    /\ worker["w1"].saved.id = worker["w2"].cached_entry.id
    /\ worker["w1"].saved.created_at > worker["w2"].cached_entry.created_at
    /\ worker["w1"].saved.cultural_origin # worker["w2"].cached_entry.cultural_origin
    /\ worker["w1"].saved \in analysis_cache
    /\ TotalHits(analysis_cache) = 0

----------------------------------------------------------------------------
(* Properties of the confidence label of an enrichment *)

\* the aggregator's providers that returned a record to this call
AggregatorResponded == Responded \cap {"kg", "dbpedia", "wikidata", "openlibrary"}

MultiSourceTiers ==
    {"high", "medium", "high (verified)", "very high (cross-verified)"}

\* C37: in every record enrich returns after a live lookup the confidence
\* agrees with sources_consulted: "medium (Wikipedia only)" only with
\* [Wikipedia], "low (Wikidata only)" only with [Wikidata], and a multi-source
\* tier only with the aggregator's list, also when the classification of the
\* aggregator's record failed and the fallback ran afterwards.
C37_ConfidenceAgreesWithSources ==
    (EnrichReturned /\ LiveLookup) =>
        /\ ret.confidence = "medium (Wikipedia only)"
              => ret.sources_consulted = <<"Wikipedia">>
        /\ ret.confidence = "low (Wikidata only)"
              => ret.sources_consulted = <<"Wikidata">>
        /\ ret.confidence \in MultiSourceTiers
              => ret.sources_consulted = InPriorityOrder(AggregatorResponded)

----------------------------------------------------------------------------
(* Properties of the two versions of the aggregator side by side *)

\* what the parallel version makes of the provider answers of this call
ParallelOn(res) ==
    ParProcessResults(NewCombinedData(call.entity_name, call.entity_type), res)

\* what the sequential version makes of the same answers
SequentialOn(res) ==
    LET c0 == SeqNewCombinedData(call.entity_name, call.entity_type)
        c1 == SeqMergeKG(c0, Returned("kg"))
        c2 == SeqMergeDBpedia(c1, Returned("dbpedia"))
        c3 == SeqMergeWikidata(c2, Returned("wikidata"))
        c4 == IF WantsOpenLibrary(call.entity_name, call.entity_type)
              THEN SeqMergeOpenLibrary(c3, Returned("openlibrary"))
              ELSE c3
    IN SeqDetermineConfidence(c4)

ComparedFields ==
    {"summary", "description", "url", "image_url", "sources_consulted",
     "confidence", "wikidata_id", "dbpedia_uri", "literary_info"}

\* C38: for the same entity name, entity type and provider answers, the
\* parallel and the sequential version return records that agree on summary,
\* description, url, image_url, sources_consulted, confidence, wikidata_id,
\* dbpedia_uri and literary_info.
C38_ModesAgree ==
    AggregatorReturned =>
        /\ ret = IF call.parallel THEN ParallelOn(results) ELSE SequentialOn(results)
        /\ \A f \in ComparedFields :
              /\ f \in DOMAIN ParallelOn(results) <=> f \in DOMAIN SequentialOn(results)
              /\ Get(ParallelOn(results), f, None) = Get(SequentialOn(results), f, None)

\* a parallel call whose tasks completed in the reverse of the priority
\* order, all four with a record, Wikidata's url filling the gap the
\* Knowledge Graph left
C38_ReverseOrderAllFour ==
    /\ AggregatorReturned
    /\ call.parallel
    /\ Len(results) = 4
    /\ results[1][1] = "openlibrary" /\ results[4][1] = "kg"
    /\ Responded = {"kg", "dbpedia", "wikidata", "openlibrary"}
    /\ ~Truthy(Returned("kg").url)
    /\ ret.url = Returned("wikidata").wikipedia_url
    /\ Truthy(ret.url)

----------------------------------------------------------------------------
(* Properties of the aggregator without a Knowledge Graph API key *)

\* the service names the sequential version throttled
Throttled == { wire_log[i].service : i \in { j \in 1..Len(wire_log) : wire_log[j].op = "throttle" } }

\* the providers other than the Knowledge Graph that this call selects
OtherProviders ==
    {"dbpedia", "wikidata"} \cup (IF Literary THEN {"openlibrary"} ELSE {})

\* C39: without a Knowledge Graph API key, in both modes no request is sent
\* to the Knowledge Graph, no throttle call is made for it, "Google Knowledge
\* Graph" is never in sources_consulted, and the other providers are queried
\* and merged as usual.
C39_NoKeyNoKnowledgeGraph ==
    (AggregatorCall /\ ~kg_api_key) =>
        /\ "kg" \notin requested
        /\ \A i \in 1..Len(wire_log) : wire_log[i].service # "knowledge_graph"
        /\ ~InList("Google Knowledge Graph", combined_data.sources_consulted)
        /\ AggregatorReturned =>
              /\ requested = OtherProviders
              /\ ~call.parallel => Throttled = OtherProviders
              /\ Responded \subseteq OtherProviders
              /\ ret.sources_consulted = InPriorityOrder(Responded)
              /\ ret.confidence = TierOfSources(ret.sources_consulted)
              /\ \A i \in 1..Len(results) :
                    results[i][2] # NoData => Contributed(results[i][1], results[i][2], ret)

\* a sequential call without the key returned with the records of DBpedia and
\* Wikidata, each throttled and requested
C39_TwoSourcesWithoutKey ==
    /\ AggregatorReturned
    /\ ~kg_api_key
    /\ ~call.parallel
    /\ Responded = {"dbpedia", "wikidata"}
    /\ ret.sources_consulted = <<"DBpedia", "Wikidata">>
    /\ ret.confidence = "high (verified)"
    /\ Throttled = {"dbpedia", "wikidata"}
====
